---------------------------- MODULE Spec2Model ----------------------------
(***************************************************************************)
(* A model of lib/ageo: Location, Map and Observation (ageo.py) and the    *)
(* MinMax ranging function (ranging.py).                                   *)
(*                                                                         *)
(* Numbers.  Coordinates are integer degrees and distances integer metres. *)
(* Probabilities are exact rationals: a matrix keeps one numerator per     *)
(* cell over a common denominator, so float64 rounding noise is absent and *)
(* any difference between two matrices is a difference of the algorithm.   *)
(* The float32 column of the on-disk table is modelled by rounding to      *)
(* MantissaBits significant bits.                                          *)
(*                                                                         *)
(* Geometry.  WGS84dist is abstracted by the Chebyshev metric on the       *)
(* degree lattice (one metre per degree), under which a geodesic disk is a *)
(* rectangle; a shapely geometry is therefore a rectangle or the empty     *)
(* geometry, and the map lies away from the +-180 meridian.                *)
(***************************************************************************)
EXTENDS Integers, Sequences, FiniteSets, TLC

VARIABLES
    locs,   \* the Location objects created so far, in creation order; each
            \* carries, per lazy field, how often its computation has run
    files,  \* the HDF files written by Location.save: name -> table
    ret,    \* the last call: its name, operands and outcome
    inp     \* the inputs of the run: a client's scenario, or the arguments of a
            \* function under test

vars == <<locs, files, ret, inp>>

NoneVal == "None"

\* ------------------------------------------------------------------------
\* Arithmetic helpers
\* ------------------------------------------------------------------------

Abs(x) == IF x < 0 THEN -x ELSE x

Max2(a, b) == IF a >= b THEN a ELSE b

Min2(a, b) == IF a <= b THEN a ELSE b

RECURSIVE GCD(_, _)
GCD(a, b) == IF b = 0 THEN a ELSE GCD(b, a % b)

RECURSIVE SetSum(_, _)
\* Sum of f[x] over the finite set S.
SetSum(f, S) ==
    IF S = {} THEN 0
    ELSE LET x == CHOOSE y \in S : TRUE IN f[x] + SetSum(f, S \ {x})

RECURSIVE SetGCD(_, _)
SetGCD(f, S) ==
    IF S = {} THEN 0
    ELSE LET x == CHOOSE y \in S : TRUE IN GCD(f[x], SetGCD(f, S \ {x}))

RECURSIVE SetMax(_)
SetMax(S) ==
    LET x == CHOOSE y \in S : TRUE
    IN IF S = {x} THEN x ELSE Max2(x, SetMax(S \ {x}))

RECURSIVE SetMin(_)
SetMin(S) ==
    LET x == CHOOSE y \in S : TRUE
    IN IF S = {x} THEN x ELSE Min2(x, SetMin(S \ {x}))

RECURSIVE Pow2(_)
Pow2(k) == IF k = 0 THEN 1 ELSE 2 * Pow2(k - 1)

\* ------------------------------------------------------------------------
\* Python sequences: 0-based, a negative index counts from the end
\* ------------------------------------------------------------------------

PyInRange(n, i) == i >= -n /\ i < n

PyIndex(n, i) == IF i < 0 THEN i + n ELSE i

PyAt(v, i) == v[PyIndex(Len(v), i) + 1]

\* ------------------------------------------------------------------------
\* Grid and mask utilities (ageo.py 65-98)
\* ------------------------------------------------------------------------

RECURSIVE BisectLeftLoop(_, _, _, _)
BisectLeftLoop(a, x, lo, hi) ==
    IF lo < hi
    THEN LET mid == (lo + hi) \div 2
         IN IF a[mid + 1] < x THEN BisectLeftLoop(a, x, mid + 1, hi)
                              ELSE BisectLeftLoop(a, x, lo, mid)
    ELSE lo

bisect_left(a, x) == BisectLeftLoop(a, x, 0, Len(a))

RECURSIVE BisectRightLoop(_, _, _, _)
BisectRightLoop(a, x, lo, hi) ==
    IF lo < hi
    THEN LET mid == (lo + hi) \div 2
         IN IF x < a[mid + 1] THEN BisectRightLoop(a, x, lo, mid)
                              ELSE BisectRightLoop(a, x, mid + 1, hi)
    ELSE lo

\* A faulty bisect_right, which leaves out the points equal to the bound.
bisect_right_exclusive(a, x) == BisectLeftLoop(a, x, 0, Len(a))

bisect_right(a, x) == BisectRightLoop(a, x, 0, Len(a))

\* range(lo, hi) as a sequence of Python indices.
PyRange(lo, hi) == [k \in 1..Max2(hi - lo, 0) |-> lo + k - 1]

\* np.tile(a, len(b)), np.repeat(b, len(a))
cartesian2(a, b) ==
    [I |-> [k \in 1..(Len(a) * Len(b)) |-> a[((k - 1) % Len(a)) + 1]],
     J |-> [k \in 1..(Len(a) * Len(b)) |-> b[((k - 1) \div Len(a)) + 1]]]

\* bounds is the tuple of a shapely .bounds: <<west, south, east, north>>,
\* or the empty tuple of an empty geometry, which cannot be destructured.
mask_ij(bounds, longitudes, latitudes) ==
    IF Len(bounds) # 4
    THEN [exc |-> "ValueError", I |-> <<>>, J |-> <<>>]
    ELSE LET west  == bounds[1]
             south == bounds[2]
             east  == bounds[3]
             north == bounds[4]
             min_i == bisect_left(longitudes, west)
             max_i == bisect_right(longitudes, east)
             min_j == bisect_left(latitudes, south)
             max_j == bisect_right(latitudes, north)
             IJ    == cartesian2(PyRange(min_i, max_i), PyRange(min_j, max_j))
         IN [exc |-> NoneVal, I |-> IJ.I, J |-> IJ.J]

\* ------------------------------------------------------------------------
\* Sparse matrices (scipy.sparse as ageo.py uses it)
\*
\* A matrix is [fmt, nrow, ncol, num, den]: shape (nrow, ncol) =
\* (longitude count, latitude count), entry [i, j] = num[<<i, j>>] / den,
\* stored compressed by rows (csr) or by columns (csc).  No explicit zero is
\* stored: every constructor the library uses drops them.
\* ------------------------------------------------------------------------

CellsOf(nrow, ncol) == (0..(nrow - 1)) \X (0..(ncol - 1))

Cells(M) == CellsOf(M.nrow, M.ncol)

Support(M) == {c \in Cells(M) : M.num[c] # 0}

MSum(M) == SetSum(M.num, Cells(M))

\* The same values with numerators and denominator in lowest terms.
Canon(fmt, nrow, ncol, num, den) ==
    LET g == GCD(SetGCD(num, CellsOf(nrow, ncol)), den)
    IN IF g <= 1
       THEN [fmt |-> fmt, nrow |-> nrow, ncol |-> ncol, num |-> num,
             den |-> IF g = 0 THEN 1 ELSE den]
       ELSE [fmt |-> fmt, nrow |-> nrow, ncol |-> ncol,
             num |-> [c \in CellsOf(nrow, ncol) |-> num[c] \div g],
             den |-> den \div g]

\* sparse.csr_matrix((nrow, ncol)): the empty matrix
ZeroMatrix(nrow, ncol) ==
    [fmt |-> "csr", nrow |-> nrow, ncol |-> ncol,
     num |-> [c \in CellsOf(nrow, ncol) |-> 0], den |-> 1]

\* M[i, j] of a scipy sparse matrix: a negative index counts from the end,
\* an index outside the shape raises IndexError.
MatGet(M, i, j) ==
    IF PyInRange(M.nrow, i) /\ PyInRange(M.ncol, j)
    THEN [exc |-> NoneVal, num |-> M.num[<<PyIndex(M.nrow, i), PyIndex(M.ncol, j)>>]]
    ELSE [exc |-> "IndexError", num |-> 0]

\* The compressed arrays.  The outer axis is the row axis of a csr matrix
\* and the column axis of a csc matrix.
OuterLen(M) == IF M.fmt = "csr" THEN M.nrow ELSE M.ncol

InnerLen(M) == IF M.fmt = "csr" THEN M.ncol ELSE M.nrow

Stored(M, o, n) == IF M.fmt = "csr" THEN M.num[<<o, n>>] ELSE M.num[<<n, o>>]

\* the inner indices stored for outer index o, ascending
InnerOf(M, o) ==
    LET nz(n) == Stored(M, o, n) # 0
    IN SelectSeq(PyRange(0, InnerLen(M)), nz)

RECURSIVE IndptrUpTo(_, _)
IndptrUpTo(M, k) ==
    IF k = 0 THEN 0 ELSE IndptrUpTo(M, k - 1) + Len(InnerOf(M, k - 1))

\* indptr[k], k = 0..outer, as a sequence
Indptr(M) == [k \in 1..(OuterLen(M) + 1) |-> IndptrUpTo(M, k - 1)]

RECURSIVE IndicesUpTo(_, _)
IndicesUpTo(M, k) ==
    IF k = 0 THEN <<>> ELSE IndicesUpTo(M, k - 1) \o InnerOf(M, k - 1)

Indices(M) == IndicesUpTo(M, OuterLen(M))

\* The outer index of the k-th stored entry (k from 1).
OuterOfEntry(M, k) ==
    CHOOSE o \in 0..(OuterLen(M) - 1) :
        Indptr(M)[o + 1] < k /\ k <= Indptr(M)[o + 2]

\* data[k]: the numerator of the k-th stored entry
Data(M) ==
    [k \in 1..Len(Indices(M)) |-> Stored(M, OuterOfEntry(M, k), Indices(M)[k])]

\* iter_csr_nonzero: the triples (index along indptr, matrix.indices[k],
\* matrix.data[k]).  For a csr matrix that is (row, column, value).
iter_csr_nonzero(matrix) ==
    [k \in 1..Len(Indices(matrix)) |->
        <<OuterOfEntry(matrix, k), Indices(matrix)[k], Data(matrix)[k]>>]

\* ------------------------------------------------------------------------
\* Distances (ageo.py 59-63), abstracted
\* ------------------------------------------------------------------------

\* WGS84dist: metres between two lon/lat points.
WGS84dist(lon1, lat1, lon2, lat2) == Max2(Abs(lon1 - lon2), Abs(lat1 - lat2))

\* ------------------------------------------------------------------------
\* Location.contains_point (ageo.py 318-331)
\* ------------------------------------------------------------------------

\* The nine lookups, in the order the `or` chain evaluates them.
NeighbourOffsets ==
    << <<-1, -1>>, <<0, -1>>, <<1, -1>>,
       <<-1,  0>>, <<0,  0>>, <<1,  0>>,
       <<-1,  1>>, <<0,  1>>, <<1,  1>> >>

RECURSIVE OrChain(_, _, _, _)
\* Python's short-circuit `or`: the first positive lookup answers True, a
\* lookup that raises before one ends the call.
OrChain(P, i, j, k) ==
    IF k > Len(NeighbourOffsets)
    THEN [exc |-> NoneVal, val |-> FALSE]
    ELSE LET g == MatGet(P, i + NeighbourOffsets[k][1], j + NeighbourOffsets[k][2])
         IN IF g.exc # NoneVal THEN [exc |-> g.exc, val |-> FALSE]
            ELSE IF g.num > 0 THEN [exc |-> NoneVal, val |-> TRUE]
            ELSE OrChain(P, i, j, k + 1)

contains_point(P, longitudes, latitudes, lon, lat) ==
    LET i == bisect_left(longitudes, lon)
        j == bisect_left(latitudes, lat)
    IN OrChain(P, i, j, 1)

\* ------------------------------------------------------------------------
\* Location.distance_to_point (ageo.py 292-316)
\*
\* Distances are carried doubled, so that resolution * 3/2 is an integer.
\* ------------------------------------------------------------------------

\* math.inf: larger than every doubled distance of the model
Infinity == 1000000000

\* pt.distance(cell.buffer(radius)): the distance to the buffered disk
DistanceToBuffer(d2, radius2) == Max2(d2 - radius2, 0)

RECURSIVE DistanceLoop(_, _, _, _, _, _, _, _)
DistanceLoop(T, k, longitudes, latitudes, resolution, lon, lat, min_distance) ==
    IF k > Len(T)
    THEN [exc |-> NoneVal, min2 |-> min_distance]
    ELSE LET x == T[k][1]
             y == T[k][2]
         IN IF x >= Len(longitudes) \/ y >= Len(latitudes)
            THEN [exc |-> "IndexError", min2 |-> min_distance]
            ELSE LET d2 == 2 * WGS84dist(lon, lat, PyAt(longitudes, x), PyAt(latitudes, y))
                 IN IF d2 - 4 * resolution < min_distance
                    THEN DistanceLoop(T, k + 1, longitudes, latitudes, resolution, lon, lat,
                             Min2(min_distance, DistanceToBuffer(d2, 3 * resolution)))
                    ELSE DistanceLoop(T, k + 1, longitudes, latitudes, resolution, lon, lat,
                             min_distance)

\* The result is [exc, twice]: twice the distance returned, or Infinity.
distance_to_point(P, longitudes, latitudes, resolution, lon, lat) ==
    LET r == DistanceLoop(iter_csr_nonzero(P), 1, longitudes, latitudes,
                          resolution, lon, lat, Infinity)
    IN IF r.exc # NoneVal THEN [exc |-> r.exc, twice |-> 0]
       ELSE IF r.min2 < 3 * resolution
            THEN [exc |-> NoneVal, twice |-> 0]
            ELSE [exc |-> NoneVal, twice |-> r.min2]

\* ------------------------------------------------------------------------
\* Optional values, geometries, floats
\* ------------------------------------------------------------------------

\* A field that is None or holds a value: <<>> or <<value>>.
None == <<>>

Some(v) == <<v>>

IsNone(x) == Len(x) = 0

IsSet(x) == Len(x) = 1

Val(x) == x[1]

\* A shapely geometry, given by its .bounds tuple: <<west, south, east,
\* north>>, or the empty tuple for the empty geometry.
EmptyGeom == <<>>

Box(west, south, east, north) == <<west, south, east, north>>

is_empty(g) == Len(g) = 0

GeomIntersection(a, b) ==
    IF is_empty(a) \/ is_empty(b) THEN EmptyGeom
    ELSE LET w == Max2(a[1], b[1])
             s == Max2(a[2], b[2])
             e == Min2(a[3], b[3])
             n == Min2(a[4], b[4])
         IN IF w > e \/ s > n THEN EmptyGeom ELSE Box(w, s, e, n)

\* Disk(x, y, radius), projected back from the azimuthal-equidistant plane
Disk(lon, lat, radius) == Box(lon - radius, lat - radius, lon + radius, lat + radius)

Lcm(a, b) == (a \div GCD(a, b)) * b

\* Significant bits kept by the float32 column of the model.
MantissaBits == 8

RECURSIVE ScaleUp(_, _, _)
\* The least e with n * 2^e >= lim, as [n |-> n * 2^e, e |-> e].
ScaleUp(n, lim, e) ==
    IF n >= lim THEN [n |-> n, e |-> e] ELSE ScaleUp(2 * n, lim, e + 1)

\* Storing the positive value n / d (at most 1) in a Float32Col: the nearest
\* value with MantissaBits significant bits, ties to even, as <<num, den>>.
ToFloat32(n, d) ==
    LET sc == ScaleUp(n, Pow2(MantissaBits - 1) * d, 0)
        q  == sc.n \div d
        r  == sc.n % d
        m  == IF 2 * r > d \/ (2 * r = d /\ q % 2 = 1) THEN q + 1 ELSE q
        g  == GCD(m, Pow2(sc.e))
    IN <<m \div g, Pow2(sc.e) \div g>>

\* ------------------------------------------------------------------------
\* ranging.MinMax (ranging.py 63-100)
\* ------------------------------------------------------------------------

DISTANCE_LIMIT == 20037508

RECURSIVE InsertSorted(_, _)
InsertSorted(sorted, v) ==
    IF sorted = <<>> THEN <<v>>
    ELSE IF v <= Head(sorted) THEN <<v>> \o sorted
    ELSE <<Head(sorted)>> \o InsertSorted(Tail(sorted), v)

RECURSIVE SortAscending(_)
SortAscending(q) == IF q = <<>> THEN <<>> ELSE InsertSorted(SortAscending(Tail(q)), Head(q))

\* MinMax.__init__: ranges is the tuple (min_cal, max_cal, min_emp, max_emp,
\* min_phy, max_phy) the calibration objects return for the rtts.
MinMax(ranges) ==
    [bounds |-> SortAscending([k \in 1..6 |-> Min2(DISTANCE_LIMIT, Max2(0, ranges[k]))])]

distance_bound(range_fn) == range_fn.bounds[6]

\* The interpolant's values at the six breakpoints, in quarters.
MinMaxShape == <<0, 3, 4, 4, 3, 0>>

\* The last breakpoint index j with bounds[j] <= dist.
LastAtMost(bounds, dist) ==
    SetMax({j \in 1..Len(bounds) : bounds[j] <= dist})

\* MinMax.unnormalized_pvals for one distance, as <<num, den>>: linear
\* interpolation between the breakpoints, 0 outside them.
unnormalized_pval(range_fn, dist) ==
    LET x == range_fn.bounds
    IN IF dist < x[1] \/ dist > x[6] THEN <<0, 1>>
       ELSE LET j == LastAtMost(x, dist)
            IN IF j = 6 \/ x[j] = dist THEN <<MinMaxShape[j], 4>>
               ELSE <<MinMaxShape[j] * (x[j + 1] - x[j])
                          + (MinMaxShape[j + 1] - MinMaxShape[j]) * (dist - x[j]),
                      4 * (x[j + 1] - x[j])>>

\* ------------------------------------------------------------------------
\* Location objects (ageo.py 109-171)
\*
\* A method takes the heap L (the sequence of objects), the file store F and
\* the index of self, and returns [exc, L, val]: the exception raised or
\* NoneVal, the heap as the call left it, and the value returned.
\* ------------------------------------------------------------------------

\* The ghost counters saturate here.
MaxRuns == 2

Computations == {"probability", "bounds", "load", "centroid", "area", "rep_pt"}

\* Location.__init__
NewLocation(cls, grid, probability, vacuity, bounds, centroid, covariance, loaded_from, ref, range_fn) ==
    [cls          |-> cls,
     resolution   |-> grid.resolution,
     fuzz         |-> grid.fuzz,
     north        |-> grid.north,
     south        |-> grid.south,
     east         |-> grid.east,
     west         |-> grid.west,
     lon_spacing  |-> grid.lon_spacing,
     lat_spacing  |-> grid.lat_spacing,
     longitudes   |-> grid.longitudes,
     latitudes    |-> grid.latitudes,
     probability  |-> probability,
     vacuous      |-> vacuity,
     bounds       |-> bounds,
     centroid     |-> centroid,
     covariance   |-> covariance,
     rep_pt       |-> None,
     loaded_from  |-> loaded_from,
     area         |-> None,
     ref          |-> ref,
     range_fn     |-> range_fn,
     runs         |-> [c \in Computations |-> 0]]

GridOf(o) ==
    [resolution |-> o.resolution, fuzz |-> o.fuzz, north |-> o.north,
     south |-> o.south, east |-> o.east, west |-> o.west,
     lon_spacing |-> o.lon_spacing, lat_spacing |-> o.lat_spacing,
     longitudes |-> o.longitudes, latitudes |-> o.latitudes]

Ok(L, v) == [exc |-> NoneVal, L |-> L, val |-> v]

Raise(e, L) == [exc |-> e, L |-> L, val |-> <<>>]

\* One more run of computation c of object a.
Ran(L, a, c) == [L EXCEPT ![a].runs[c] = Min2(@ + 1, MaxRuns)]

\* The outcome r of computation c of object a, counted when it ran to its end.
Counted(a, c, r) == IF r.exc = NoneVal THEN [r EXCEPT !.L = Ran(r.L, a, c)] ELSE r

\* self.method(arg), resolved by the class of object a; defined below, after
\* the methods.  arg is the region for compute_probability_matrix_within,
\* <<other, bounds>> for intersection, the file name for save, and <<>> for
\* the others.
RECURSIVE Call(_, _, _, _, _)

\* ------------------------------------------------------------------------
\* Location._lazy_load_pmatrix (ageo.py 546-582)
\* ------------------------------------------------------------------------

RECURSIVE LoadRows(_, _, _, _, _, _)
\* The loop over t.iterrows(): acc is the dok matrix so far, cell -> <<num, den>>.
LoadRows(rows, k, nlon, nlat, acc, vacuous) ==
    IF k > Len(rows)
    THEN [exc |-> NoneVal, acc |-> acc, vacuous |-> vacuous]
    ELSE LET pmass == rows[k].prob_mass
         IN IF pmass[1] > 0
            THEN IF rows[k].grid_x < nlon /\ rows[k].grid_y < nlat
                 THEN LoadRows(rows, k + 1, nlon, nlat,
                               [acc EXCEPT ![<<rows[k].grid_x, rows[k].grid_y>>] = pmass],
                               FALSE)
                 ELSE [exc |-> "IndexError", acc |-> acc, vacuous |-> vacuous]
            ELSE IF pmass[1] < 0
                 \* negative_warning is still False: the write names the
                 \* undefined variable fname
                 THEN [exc |-> "NameError", acc |-> acc, vacuous |-> vacuous]
                 ELSE LoadRows(rows, k + 1, nlon, nlat, acc, vacuous)

RECURSIVE SetLcm(_, _)
SetLcm(f, S) ==
    IF S = {} THEN 1
    ELSE LET x == CHOOSE y \in S : TRUE IN Lcm(f[x][2], SetLcm(f, S \ {x}))

\* M.tocsr() of the dok matrix acc
DokToCsr(acc, nlon, nlat) ==
    LET D == SetLcm(acc, CellsOf(nlon, nlat))
    IN Canon("csr", nlon, nlat,
             [c \in CellsOf(nlon, nlat) |-> acc[c][1] * (D \div acc[c][2])], D)

lazy_load_pmatrix(L, F, a) ==
    Counted(a, "load",
    LET self == L[a]
        t    == Val(F[Val(self.loaded_from)])
        r    == LoadRows(t.rows, 1, t.lon_count, t.lat_count,
                         [c \in CellsOf(t.lon_count, t.lat_count) |-> <<0, 1>>], TRUE)
        M    == DokToCsr(r.acc, t.lon_count, t.lat_count)
        Is   == {c[1] : c \in Support(M)}
        Js   == {c[2] : c \in Support(M)}
        L1   == L
    IN IF ~t.table THEN Raise("NoSuchNodeError", L1)
       ELSE IF r.exc # NoneVal THEN Raise(r.exc, L1)
       ELSE IF r.vacuous
       THEN Ok([L1 EXCEPT ![a].probability = Some(M), ![a].vacuous = Some(TRUE),
                          ![a].bounds = Some(Box(0, 0, 0, 0))], <<>>)
       ELSE IF SetMax(Is) >= Len(self.longitudes) \/ SetMax(Js) >= Len(self.latitudes)
       THEN Raise("IndexError", L1)
       ELSE Ok([L1 EXCEPT ![a].probability = Some(M), ![a].vacuous = Some(FALSE),
                          ![a].bounds = Some(Box(PyAt(self.longitudes, SetMin(Is)),
                                                 PyAt(self.latitudes, SetMin(Js)),
                                                 PyAt(self.longitudes, SetMax(Is)),
                                                 PyAt(self.latitudes, SetMax(Js))))],
               <<>>))

\* ------------------------------------------------------------------------
\* bounds (ageo.py 372-384, 710-781)
\* ------------------------------------------------------------------------

\* Above this distance bound the bounding region is the whole map.
WholeMapBound == 19975000

\* Location.compute_bounding_region_now
base_compute_bounding_region_now(L, F, a) ==
    LET r == IF IsNone(L[a].bounds) /\ IsSet(L[a].loaded_from)
             THEN Counted(a, "bounds", Call("_lazy_load_pmatrix", L, F, a, <<>>))
             ELSE Ok(L, <<>>)
    IN IF r.exc # NoneVal THEN r
       ELSE IF IsNone(r.L[a].bounds) THEN Raise("AssertionError", r.L)
       ELSE r

\* Observation.compute_bounding_region_now.  The model's map lies away from
\* the +-180 meridian and its disks contain their centre, so neither of the
\* two corrections of the projected disk applies.
\* A faulty bounding region, which gives up only at DISTANCE_LIMIT.
obs_bounding_region_at_limit(L, F, a) ==
    IF IsSet(L[a].bounds) THEN Ok(L, <<>>)
    ELSE IF distance_bound(Val(L[a].range_fn)) >= DISTANCE_LIMIT
            \/ distance_bound(Val(L[a].range_fn)) = 0
    THEN Ok([Ran(L, a, "bounds") EXCEPT ![a].bounds =
                 Some(Box(L[a].west, L[a].south, L[a].east, L[a].north))], <<>>)
    ELSE Ok([Ran(L, a, "bounds") EXCEPT ![a].bounds =
                 Some(Disk(Val(L[a].ref)[1], Val(L[a].ref)[2],
                           distance_bound(Val(L[a].range_fn))))], <<>>)

obs_compute_bounding_region_now(L, F, a) ==
    LET self == L[a]
        db   == distance_bound(Val(self.range_fn))
        L1   == Ran(L, a, "bounds")   \* this computation always ends
    IN IF IsSet(self.bounds) THEN Ok(L, <<>>)
       ELSE IF db > WholeMapBound \/ db = 0
       THEN Ok([L1 EXCEPT ![a].bounds =
                    Some(Box(self.west, self.south, self.east, self.north))], <<>>)
       ELSE Ok([L1 EXCEPT ![a].bounds =
                    Some(Disk(Val(self.ref)[1], Val(self.ref)[2], db))], <<>>)

\* the bounds property
bounds_property(L, F, a) ==
    LET r == IF IsNone(L[a].bounds)
             THEN Call("compute_bounding_region_now", L, F, a, <<>>)
             ELSE Ok(L, <<>>)
    IN IF r.exc # NoneVal THEN r ELSE Ok(r.L, Val(r.L[a].bounds))

\* ------------------------------------------------------------------------
\* compute_probability_matrix_within (ageo.py 346-370, 783-809)
\*
\* val is <<matrix, vacuous>>.
\* ------------------------------------------------------------------------

\* A faulty restriction, which masks and leaves the sum as it falls.
MaskedUnnormalised(P, IJ) ==
    LET inside == {<<IJ.I[k], IJ.J[k]>> : k \in 1..Len(IJ.I)}
        num    == [c \in Cells(P) |-> IF c \in inside THEN P.num[c] ELSE 0]
        s      == SetSum(num, Cells(P))
    IN IF s # 0
       THEN <<Canon("csr", P.nrow, P.ncol, num, P.den), FALSE>>
       ELSE <<ZeroMatrix(P.nrow, P.ncol), TRUE>>

\* mask_matrix(...).multiply(P) followed by the renormalisation
MaskedNormalised(P, IJ) ==
    LET inside == {<<IJ.I[k], IJ.J[k]>> : k \in 1..Len(IJ.I)}
        num    == [c \in Cells(P) |-> IF c \in inside THEN P.num[c] ELSE 0]
        s      == SetSum(num, Cells(P))
    IN IF s # 0
       THEN <<Canon("csr", P.nrow, P.ncol, num, s), FALSE>>
       ELSE <<ZeroMatrix(P.nrow, P.ncol), TRUE>>

\* Location.compute_probability_matrix_within
base_compute_probability_matrix_within(L, F, a, bounds) ==
    LET self == L[a]
    IN IF IsNone(self.probability) \/ IsNone(self.vacuous)
       THEN Raise("AssertionError", L)
       ELSE IF Val(self.vacuous)
       THEN Ok(L, <<Val(self.probability), TRUE>>)
       ELSE IF is_empty(bounds)
       THEN Ok(L, <<ZeroMatrix(Len(self.longitudes), Len(self.latitudes)), TRUE>>)
       ELSE IF Val(self.probability).nrow # Len(self.longitudes)
               \/ Val(self.probability).ncol # Len(self.latitudes)
       THEN Raise("ValueError", L)   \* multiply: inconsistent shapes
       ELSE Ok(L, MaskedNormalised(Val(self.probability),
                                   mask_ij(bounds, self.longitudes, self.latitudes)))

RECURSIVE SeqLcm(_, _)
SeqLcm(pv, k) == IF k = 0 THEN 1 ELSE Lcm(pv[k][2], SeqLcm(pv, k - 1))

\* sparse.csr_matrix((pvals / s, (I, J))) with its zeros eliminated
ObservedNormalised(pvals, IJ, nlon, nlat) ==
    LET D   == SeqLcm(pvals, Len(pvals))
        w   == [k \in 1..Len(pvals) |-> pvals[k][1] * (D \div pvals[k][2])]
        num == [c \in CellsOf(nlon, nlat) |->
                   IF \E k \in 1..Len(pvals) : <<IJ.I[k], IJ.J[k]>> = c
                   THEN w[CHOOSE k \in 1..Len(pvals) : <<IJ.I[k], IJ.J[k]>> = c]
                   ELSE 0]
        s   == SetSum(num, CellsOf(nlon, nlat))
    IN IF s # 0
       THEN <<Canon("csr", nlon, nlat, num, s), FALSE>>
       ELSE <<ZeroMatrix(nlon, nlat), TRUE>>

\* Observation.compute_probability_matrix_within
obs_compute_probability_matrix_within(L, F, a, bounds) ==
    IF is_empty(bounds)
    THEN Ok(L, <<ZeroMatrix(Len(L[a].longitudes), Len(L[a].latitudes)), TRUE>>)
    ELSE LET b == Call("bounds", L, F, a, <<>>)
         IN IF b.exc # NoneVal THEN b
            ELSE LET self  == b.L[a]
                     IJ    == mask_ij(GeomIntersection(bounds, b.val),
                                      self.longitudes, self.latitudes)
                     pvals == [k \in 1..Len(IJ.I) |->
                                  unnormalized_pval(Val(self.range_fn),
                                      WGS84dist(Val(self.ref)[1], Val(self.ref)[2],
                                                PyAt(self.longitudes, IJ.I[k]),
                                                PyAt(self.latitudes, IJ.J[k])))]
                 IN IF IJ.exc # NoneVal THEN Raise(IJ.exc, b.L)
                    ELSE Ok(b.L, ObservedNormalised(pvals, IJ, Len(self.longitudes),
                                                    Len(self.latitudes)))

\* Location.compute_probability_matrix_now
compute_probability_matrix_now(L, F, a) ==
    IF IsSet(L[a].probability) THEN Ok(L, <<>>)
    ELSE IF IsSet(L[a].loaded_from)
    THEN Counted(a, "probability", Call("_lazy_load_pmatrix", L, F, a, <<>>))
    ELSE LET b == Call("bounds", L, F, a, <<>>)
             r == Call("compute_probability_matrix_within", b.L, F, a, b.val)
         IN IF b.exc # NoneVal THEN b
            ELSE IF r.exc # NoneVal THEN r
            ELSE Ok(Ran([r.L EXCEPT ![a].probability = Some(r.val[1]),
                                    ![a].vacuous = Some(r.val[2])],
                        a, "probability"), <<>>)

\* the probability property
probability_property(L, F, a) ==
    LET r == IF IsNone(L[a].probability)
             THEN Call("compute_probability_matrix_now", L, F, a, <<>>)
             ELSE Ok(L, <<>>)
    IN IF r.exc # NoneVal THEN r ELSE Ok(r.L, Val(r.L[a].probability))

\* the vacuous property
vacuous_property(L, F, a) ==
    LET r == IF IsNone(L[a].vacuous)
             THEN Call("compute_probability_matrix_now", L, F, a, <<>>)
             ELSE Ok(L, <<>>)
    IN IF r.exc # NoneVal THEN r ELSE Ok(r.L, Val(r.L[a].vacuous))

\* ------------------------------------------------------------------------
\* Location.intersection (ageo.py 386-459)
\* ------------------------------------------------------------------------

\* np.allclose(data, data[0]) with numpy's default rtol = 1e-5 and
\* atol = 1e-8, on numerators over the denominator den:
\*   |n - n0| / den <= atol + rtol * n0 / den
\*   <=>  |n - n0| * RTolInv <= n0 + den / AToLRatio
RTolInv == 100000

AToLRatio == 1000

AllClose(data, n0, den) ==
    \A k \in 1..Len(data) :
        Abs(data[k] - n0) <= (n0 + den \div AToLRatio) \div RTolInv

\* Products above this numerator are left out of the model.
MaxNumerator == 500000

\* The product of the two matrices stays below MaxNumerator.
ProductFits(M1, M2) ==
    \A c \in Cells(M1) :
        IF M2.num[c] = 0 THEN TRUE
        ELSE M1.num[c] <= MaxNumerator \div M2.num[c]

\* A faulty product, which keeps the first factor.
MultiplyFirstOnly(M1, M2) == <<M1, FALSE>>

\* M1.multiply(M2), renormalised, zeros eliminated: <<matrix, vacuous>>
MultiplyNormalised(M1, M2) ==
    LET num == [c \in Cells(M1) |-> M1.num[c] * M2.num[c]]
        s   == SetSum(num, Cells(M1))
    IN IF s # 0
       THEN <<Canon("csr", M1.nrow, M1.ncol, num, s), FALSE>>
       ELSE <<ZeroMatrix(M1.nrow, M1.ncol), TRUE>>

\* A faulty combination, which reuses the second matrix whenever the
\* supports agree, uniform or not.
CombineReusingOther(M1, M2) ==
    IF Indptr(M1) = Indptr(M2) /\ Indices(M1) = Indices(M2)
    THEN [exc |-> NoneVal, M |-> M2, V |-> FALSE]
    ELSE IF M1.nrow # M2.nrow \/ M1.ncol # M2.ncol
    THEN [exc |-> "ValueError", M |-> M1, V |-> FALSE]
    ELSE IF ~ProductFits(M1, M2)
    THEN [exc |-> "OutOfRange", M |-> M1, V |-> FALSE]
    ELSE [exc |-> NoneVal, M |-> MultiplyNormalised(M1, M2)[1],
          V |-> MultiplyNormalised(M1, M2)[2]]

\* The combination of two matrices with mass: the other matrix when the
\* supports agree and one of them is nearly uniform, the renormalised
\* product otherwise.
CombineNonVacuous(M1, M2) ==
    IF Indptr(M1) = Indptr(M2) /\ Indices(M1) = Indices(M2)
            /\ AllClose(Data(M1), Data(M1)[1], M1.den)
    THEN [exc |-> NoneVal, M |-> M2, V |-> FALSE]
    ELSE IF Indptr(M1) = Indptr(M2) /\ Indices(M1) = Indices(M2)
            /\ AllClose(Data(M2), Data(M2)[1], M2.den)
    THEN [exc |-> NoneVal, M |-> M1, V |-> FALSE]
    ELSE IF M1.nrow # M2.nrow \/ M1.ncol # M2.ncol
    THEN [exc |-> "ValueError", M |-> M1, V |-> FALSE]   \* inconsistent shapes
    ELSE IF ~ProductFits(M1, M2)
    THEN [exc |-> "OutOfRange", M |-> M1, V |-> FALSE]   \* not modelled
    ELSE LET P == MultiplyNormalised(M1, M2)
         IN [exc |-> NoneVal, M |-> P[1], V |-> P[2]]

\* A faulty combination, which answers a vacuous first operand with the
\* second operand's matrix.
CombineTakingOther(M1, V1, M2, V2) ==
    IF V1 THEN [exc |-> NoneVal, M |-> M2, V |-> V2]
    ELSE IF V2 THEN [exc |-> NoneVal, M |-> M2, V |-> TRUE]
    ELSE CombineNonVacuous(M1, M2)

\* A faulty combination, which answers a vacuous second operand with the
\* first operand's matrix.
CombineKeepingFirst(M1, V1, M2, V2) ==
    IF V1 THEN [exc |-> NoneVal, M |-> M1, V |-> TRUE]
    ELSE IF V2 THEN [exc |-> NoneVal, M |-> M1, V |-> FALSE]
    ELSE CombineNonVacuous(M1, M2)

\* The combination of the two restricted matrices: [exc, M, V].
Combine(M1, V1, M2, V2) ==
    IF V1 THEN [exc |-> NoneVal, M |-> M1, V |-> TRUE]
    ELSE IF V2 THEN [exc |-> NoneVal, M |-> M2, V |-> TRUE]
    ELSE CombineNonVacuous(M1, M2)

\* The grid check that opens intersection.
InconsistentGrids(self, other) ==
    \/ self.resolution  # other.resolution
    \/ self.fuzz        # other.fuzz
    \/ self.north       # other.north
    \/ self.south       # other.south
    \/ self.east        # other.east
    \/ self.west        # other.west
    \/ self.lon_spacing # other.lon_spacing
    \/ self.lat_spacing # other.lat_spacing

\* bounds is None or Some(geometry); val is the new Location.
intersection(L, F, a, b, bounds) ==
    IF InconsistentGrids(L[a], L[b]) THEN Raise("ValueError", L)
    ELSE
    LET sb == IF IsNone(bounds) THEN Call("bounds", L, F, a, <<>>) ELSE Ok(L, <<>>)
        ob == IF IsNone(bounds) THEN Call("bounds", sb.L, F, b, <<>>) ELSE Ok(L, <<>>)
        B  == IF IsNone(bounds) THEN GeomIntersection(sb.val, ob.val) ELSE Val(bounds)
        r1 == Call("compute_probability_matrix_within", ob.L, F, a, B)
        r2 == Call("compute_probability_matrix_within", r1.L, F, b, B)
        C  == Combine(r1.val[1], r1.val[2], r2.val[1], r2.val[2])
    IN IF sb.exc # NoneVal THEN sb
       ELSE IF ob.exc # NoneVal THEN ob
       ELSE IF r1.exc # NoneVal THEN r1
       ELSE IF r2.exc # NoneVal THEN r2
       ELSE IF C.exc # NoneVal THEN Raise(C.exc, r2.L)
       ELSE Ok(r2.L, NewLocation("Location", GridOf(r2.L[a]), Some(C.M), Some(C.V),
                                 Some(B), None, None, None, None, None))

\* ------------------------------------------------------------------------
\* Centroid, area, representative point (ageo.py 185-290, 461-502)
\* ------------------------------------------------------------------------

\* The streamed triples index the grid vectors: an index past the end of a
\* vector raises IndexError.
IndexableBy(T, longitudes, latitudes) ==
    \A k \in 1..Len(T) : T[k][1] < Len(longitudes) /\ T[k][2] < Len(latitudes)

\* The centroid of the weighted points, lon = x / den and lat = y / den.  The
\* empty sum is the centre of the Earth, which PROJ.4 maps to the north pole.
CentroidOf(T, longitudes, latitudes, den) ==
    IF Len(T) = 0 THEN [x |-> 0, y |-> 90, den |-> 1]
    ELSE LET X == [k \in 1..Len(T) |-> PyAt(longitudes, T[k][1]) * T[k][3]]
             Y == [k \in 1..Len(T) |-> PyAt(latitudes, T[k][2]) * T[k][3]]
             x == SetSum(X, 1..Len(T))
             y == SetSum(Y, 1..Len(T))
             g == GCD(GCD(x, y), den)
         IN [x |-> x \div g, y |-> y \div g, den |-> den \div g]

\* np.cov of the stacked weighted coordinates, kept as its argument.
CovarianceOf(T, longitudes, latitudes, den) ==
    [X   |-> [k \in 1..Len(T) |-> PyAt(longitudes, T[k][1]) * T[k][3]],
     Y   |-> [k \in 1..Len(T) |-> PyAt(latitudes, T[k][2]) * T[k][3]],
     den |-> den]

\* Location.compute_centroid_now
compute_centroid_now(L, F, a) ==
    IF IsSet(L[a].centroid) THEN Ok(L, <<>>)
    ELSE Counted(a, "centroid",
         LET p == Call("probability", L, F, a, <<>>)
             T == iter_csr_nonzero(p.val)
             o == p.L[a]
         IN IF p.exc # NoneVal THEN p
            ELSE IF ~IndexableBy(T, o.longitudes, o.latitudes)
            THEN Raise("IndexError", p.L)
            ELSE Ok([p.L EXCEPT
                       ![a].covariance =
                           Some(CovarianceOf(T, o.longitudes, o.latitudes, p.val.den)),
                       ![a].centroid =
                           Some(CentroidOf(T, o.longitudes, o.latitudes, p.val.den))],
                    <<>>))

\* the centroid property
centroid_property(L, F, a) ==
    LET r == IF IsNone(L[a].centroid) THEN Call("compute_centroid_now", L, F, a, <<>>) ELSE Ok(L, <<>>)
    IN IF r.exc # NoneVal THEN r ELSE Ok(r.L, Val(r.L[a].centroid))

\* the covariance property
covariance_property(L, F, a) ==
    LET r == IF IsNone(L[a].covariance) THEN Call("compute_centroid_now", L, F, a, <<>>) ELSE Ok(L, <<>>)
    IN IF r.exc # NoneVal THEN r ELSE Ok(r.L, Val(r.L[a].covariance))

\* The equal-area size of the tile around a grid point, which depends on its
\* breadth and its latitude only.  The breadth is the same for every tile
\* (longitudes[0] and [1] always), so the unit of area is one breadth.
TileArea(west, east, lat) == 90 - Abs(lat)

\* The strip of a tile stays between the poles (latitudes doubled).
StripOk(lat, d_lat2) ==
    /\ -180 <= 2 * lat - d_lat2
    /\ 2 * lat - d_lat2 < 2 * lat + d_lat2
    /\ 2 * lat + d_lat2 <= 180

\* The weighted area as <<num, den>>: the values normalised to sum 1, scaled
\* to 1 per cell, each times the area of its tile.
AreaOf(P, longitudes, latitudes) ==
    LET S     == Support(P)
        tiles == [c \in S |-> P.num[c] * TileArea(longitudes[1], longitudes[2],
                                                  PyAt(latitudes, c[2]))]
        n     == Cardinality(S) * SetSum(tiles, S)
        d     == SetSum(P.num, S)
        g     == GCD(n, d)
    IN <<n \div g, d \div g>>

\* the area property; val is <<num, den>>
area_property(L, F, a) ==
    IF IsSet(L[a].area) THEN Ok(L, Val(L[a].area))
    ELSE IF Len(L[a].longitudes) < 2 \/ Len(L[a].latitudes) < 2
    THEN Raise("IndexError", L)
    ELSE Counted(a, "area",
         LET p == Call("probability", L, F, a, <<>>)
             o == p.L[a]
             d_lat2 == o.latitudes[2] - o.latitudes[1]
         IN IF p.exc # NoneVal THEN p
            ELSE IF MSum(p.val) = 0 THEN Ok(p.L, <<0, 1>>)   \* returned, not stored
            ELSE IF \E c \in Support(p.val) : ~StripOk(PyAt(o.latitudes, c[2]), d_lat2)
            THEN Raise("AssertionError", p.L)
            ELSE LET ar == AreaOf(p.val, o.longitudes, o.latitudes)
                 IN Ok([p.L EXCEPT ![a].area = Some(ar)], ar))

\* rep_pt's epsilon is 1e-8.
EpsilonInv == 100000000

\* v > max_prob - epsilon, for numerators over den
AboveMaxLessEpsilon(v, max_prob, den) == max_prob - v <= (den - 1) \div EpsilonInv

\* WGS84dist from the centroid cen to (lon, lat), times cen.den
DistFromCentroid(cen, lon, lat) ==
    Max2(Abs(cen.x - lon * cen.den), Abs(cen.y - lat * cen.den))

RECURSIVE RepPtLoop(_, _, _, _, _, _, _, _, _)
\* The loop of rep_pt; rep is None or Some(<<lon, lat>>).
RepPtLoop(T, k, longitudes, latitudes, cen, den, max_prob, min_dist, rep) ==
    IF k > Len(T) THEN rep
    ELSE LET lon  == PyAt(longitudes, T[k][1])
             lat  == PyAt(latitudes, T[k][2])
             v    == T[k][3]
             dist == DistFromCentroid(cen, lon, lat)
         IN IF (IsNone(rep) \/ AboveMaxLessEpsilon(v, max_prob, den))
               /\ (\/ IsNone(rep)
                   \/ v > max_prob
                   \/ (AboveMaxLessEpsilon(v, max_prob, den) /\ dist < min_dist))
            THEN RepPtLoop(T, k + 1, longitudes, latitudes, cen, den,
                           Max2(max_prob, v), dist, Some(<<lon, lat>>))
            ELSE RepPtLoop(T, k + 1, longitudes, latitudes, cen, den,
                           max_prob, min_dist, rep)

\* the rep_pt property; val is <<lon, lat>>, or the centroid when no cell is
\* non-zero
rep_pt_property(L, F, a) ==
    IF IsSet(L[a].rep_pt) THEN Ok(L, Val(L[a].rep_pt))
    ELSE Counted(a, "rep_pt",
         LET c == Call("centroid", L, F, a, <<>>)
             p == Call("probability", c.L, F, a, <<>>)
             o == p.L[a]
             T == iter_csr_nonzero(p.val)
             rep == RepPtLoop(T, 1, o.longitudes, o.latitudes, c.val, p.val.den,
                              0, Infinity, None)
             out == IF IsNone(rep) THEN c.val ELSE Val(rep)
         IN IF c.exc # NoneVal THEN c
            ELSE IF p.exc # NoneVal THEN p
            ELSE IF ~IndexableBy(T, o.longitudes, o.latitudes)
            THEN Raise("IndexError", p.L)
            ELSE Ok([p.L EXCEPT ![a].rep_pt = Some(out)], out))

\* ------------------------------------------------------------------------
\* save and load (ageo.py 504-544, 584-614)
\*
\* A file is [table, resolution, ..., lon_count, lat_count, centroid,
\* covariance, rows]; table is FALSE for a file that was opened for writing
\* and closed before its table was created.
\* ------------------------------------------------------------------------

\* A file truncated by open_file(mode="w") and left without its table.
TruncatedFile ==
    [table |-> FALSE, resolution |-> 0, fuzz |-> 0, north |-> 0, south |-> 0,
     east |-> 0, west |-> 0, lon_spacing |-> 0, lat_spacing |-> 0,
     lon_count |-> 0, lat_count |-> 0, centroid |-> None, covariance |-> None,
     rows |-> <<>>]

\* The rows of the table: one per streamed triple, prob_mass in single
\* precision.
RowsOf(T, longitudes, latitudes, den) ==
    [k \in 1..Len(T) |->
        [grid_x    |-> T[k][1],
         grid_y    |-> T[k][2],
         longitude |-> PyAt(longitudes, T[k][1]),
         latitude  |-> PyAt(latitudes, T[k][2]),
         prob_mass |-> ToFloat32(T[k][3], den)]]

\* The longest prefix of the triples that index the grid vectors.
RECURSIVE IndexablePrefix(_, _, _)
IndexablePrefix(T, longitudes, latitudes) ==
    IF T = <<>> \/ ~IndexableBy(<<Head(T)>>, longitudes, latitudes) THEN <<>>
    ELSE <<Head(T)>> \o IndexablePrefix(Tail(T), longitudes, latitudes)

\* Location.save: val is the file store as the call leaves it.
save(L, F, a, fname) ==
    LET c == Call("compute_centroid_now", L, F, a, <<>>)
        p == Call("probability", c.L, [F EXCEPT ![fname] = Some(TruncatedFile)], a, <<>>)
        o == p.L[a]
        T == iter_csr_nonzero(p.val)
        W == IndexablePrefix(T, o.longitudes, o.latitudes)
        t == [table       |-> TRUE,
              resolution  |-> o.resolution,
              fuzz        |-> o.fuzz,
              north       |-> o.north,
              south       |-> o.south,
              east        |-> o.east,
              west        |-> o.west,
              lon_spacing |-> o.lon_spacing,
              lat_spacing |-> o.lat_spacing,
              lon_count   |-> Len(o.longitudes),
              lat_count   |-> Len(o.latitudes),
              centroid    |-> o.centroid,
              covariance  |-> o.covariance,
              rows        |-> RowsOf(W, o.longitudes, o.latitudes, p.val.den)]
    IN IF c.exc # NoneVal THEN [exc |-> c.exc, L |-> c.L, val |-> F]
       ELSE IF p.exc # NoneVal
       THEN [exc |-> p.exc, L |-> p.L, val |-> [F EXCEPT ![fname] = Some(TruncatedFile)]]
       ELSE [exc |-> IF Len(W) < Len(T) THEN "IndexError" ELSE NoneVal,
             L   |-> p.L,
             val |-> [F EXCEPT ![fname] = Some(t)]]

\* np.linspace(start, stop, num); the grids of the model make the division
\* exact.
linspace(start, stop, num) ==
    [k \in 1..num |-> IF num = 1 THEN start
                      ELSE start + ((k - 1) * (stop - start)) \div (num - 1)]

\* Location.load: val is the new Location.
load(L, F, fname) ==
    IF IsNone(F[fname]) THEN Raise("OSError", L)
    ELSE LET t == Val(F[fname])
         IN IF ~t.table THEN Raise("NoSuchNodeError", L)
            ELSE Ok(L, NewLocation("Location",
                        [resolution |-> t.resolution, fuzz |-> t.fuzz,
                         north |-> t.north, south |-> t.south,
                         east |-> t.east, west |-> t.west,
                         lon_spacing |-> t.lon_spacing, lat_spacing |-> t.lat_spacing,
                         longitudes |-> linspace(t.west, t.east, t.lon_count),
                         latitudes  |-> linspace(t.south, t.north, t.lat_count)],
                        None, None, None, t.centroid, t.covariance,
                        Some(fname), None, None))

\* Attribute lookup on self: the methods and properties of Location, with
\* the two methods Observation overrides.
Call(method, L, F, a, arg) ==
    CASE method = "_lazy_load_pmatrix" -> lazy_load_pmatrix(L, F, a)
      [] method = "compute_bounding_region_now" ->
            IF L[a].cls = "Observation"
            THEN obs_compute_bounding_region_now(L, F, a)
            ELSE base_compute_bounding_region_now(L, F, a)
      [] method = "compute_probability_matrix_within" ->
            IF L[a].cls = "Observation"
            THEN obs_compute_probability_matrix_within(L, F, a, arg)
            ELSE base_compute_probability_matrix_within(L, F, a, arg)
      [] method = "compute_probability_matrix_now" -> compute_probability_matrix_now(L, F, a)
      [] method = "compute_centroid_now" -> compute_centroid_now(L, F, a)
      [] method = "probability" -> probability_property(L, F, a)
      [] method = "vacuous"     -> vacuous_property(L, F, a)
      [] method = "bounds"      -> bounds_property(L, F, a)
      [] method = "centroid"    -> centroid_property(L, F, a)
      [] method = "covariance"  -> covariance_property(L, F, a)
      [] method = "area"        -> area_property(L, F, a)
      [] method = "rep_pt"      -> rep_pt_property(L, F, a)
      [] method = "intersection" -> intersection(L, F, a, arg[1], arg[2])
      [] method = "save"        -> save(L, F, a, arg)

\* ------------------------------------------------------------------------
\* Map and Observation (ageo.py 616-708)
\*
\* A map file is [shape, baseline, grid]: the stored array, baseline[<<r, c>>]
\* for 0 <= r < shape[1] and 0 <= c < shape[2], and the grid attributes.
\* ------------------------------------------------------------------------

\* Map.__init__: val is the new Map.
Map(L, mapfile) ==
    LET M    == mapfile
        nlon == Len(M.grid.longitudes)
        csr  == [fmt |-> "csr", nrow |-> M.shape[1], ncol |-> M.shape[2],
                 num |-> M.baseline]
        csc  == [fmt |-> "csc", nrow |-> M.shape[2], ncol |-> M.shape[1],
                 num |-> [c \in CellsOf(M.shape[2], M.shape[1]) |->
                             M.baseline[<<c[2], c[1]>>]]]
        base == IF M.shape[1] = nlon THEN csr ELSE csc
        s    == SetSum(base.num, CellsOf(base.nrow, base.ncol))
    IN IF M.shape[1] # nlon /\ M.shape[2] # nlon THEN Raise("RuntimeError", L)
       ELSE IF ~(s > 0) THEN Raise("AssertionError", L)
       ELSE Ok(L, NewLocation("Map", M.grid,
                              Some(Canon(base.fmt, base.nrow, base.ncol, base.num, s)),
                              Some(FALSE),
                              Some(Box(M.grid.west, M.grid.south,
                                       M.grid.east, M.grid.north)),
                              None, None, None, None, None))

\* Observation.__init__: ranges is what the calibration yields for the rtts.
Observation(L, basemap, ref_lon, ref_lat, ranges) ==
    Ok(L, NewLocation("Observation", GridOf(L[basemap]), None, None, None,
                      None, None, None, Some(<<ref_lon, ref_lat>>),
                      Some(MinMax(ranges))))

\* ------------------------------------------------------------------------
\* The library in use: a client constructs Maps and Observations, intersects
\* them, reads their properties, saves and loads them.
\* ------------------------------------------------------------------------

\* At most this many objects are constructed.
MaxLocs == 3

Grid3x2 ==
    [resolution |-> 2, fuzz |-> 0, north |-> 2, south |-> 0, east |-> 4, west |-> 0,
     lon_spacing |-> 2, lat_spacing |-> 2,
     longitudes |-> <<0, 2, 4>>, latitudes |-> <<0, 2>>]

\* The stored array given by its rows.
Stored2D(rows) ==
    [shape    |-> <<Len(rows), Len(rows[1])>>,
     baseline |-> [c \in CellsOf(Len(rows), Len(rows[1])) |-> rows[c[1] + 1][c[2] + 1]]]

MapFile(rows, grid) ==
    [shape |-> Stored2D(rows).shape, baseline |-> Stored2D(rows).baseline, grid |-> grid]

\* The map files of the model: longitude-major and latitude-major storage,
\* a uniform and two nearly uniform priors, a prior that rises along their
\* cells, a grid with other vectors under the same eight scalars, a grid of
\* another resolution, and an all-zero baseline.
MapFiles ==
    [plain    |-> MapFile(<< <<1, 2>>, <<0, 1>>, <<3, 0>> >>, Grid3x2),
     latmajor |-> MapFile(<< <<1, 0, 3>>, <<2, 1, 0>> >>, Grid3x2),
     flat     |-> MapFile(<< <<1, 1>>, <<0, 1>>, <<0, 0>> >>, Grid3x2),
     near1    |-> MapFile(<< <<100000, 0>>, <<100001, 0>>, <<99999, 0>> >>, Grid3x2),
     near2    |-> MapFile(<< <<100000, 0>>, <<99999, 0>>, <<100001, 0>> >>, Grid3x2),
     skewed   |-> MapFile(<< <<1, 2>>, <<0, 1>>, <<3, 0>> >>,
                          [Grid3x2 EXCEPT !.longitudes = <<0, 1, 4>>]),
     coarse   |-> MapFile(<< <<1, 2>>, <<0, 1>>, <<3, 0>> >>,
                          [Grid3x2 EXCEPT !.resolution = 4]),
     ramp     |-> MapFile(<< <<1, 0>>, <<2, 0>>, <<3, 0>> >>, Grid3x2),
     blank    |-> MapFile(<< <<0, 0>>, <<0, 0>>, <<0, 0>> >>, Grid3x2)]

MapNames == DOMAIN MapFiles

\* The observations of the model, <<ref_lon, ref_lat, ranges>>: one that sees
\* four cells of the grid and one whose distances lie beyond every cell.
Sightings == {<<0, 0, <<1, 2, 0, 3, 0, 4>> >>, <<3, 1, <<5, 6, 5, 6, 5, 7>> >>}

\* The regions a caller passes to intersection and to
\* compute_probability_matrix_within.
Regions == {Box(0, 0, 2, 2), Box(3, 0, 4, 1), EmptyGeom}

FileNames == {"saved.h5"}

Properties == {"probability", "vacuous", "bounds", "centroid", "covariance",
               "area", "rep_pt"}

\* What the client of a run works with: the map files at hand, whether it
\* combines Locations or reads, saves and loads them, and how many objects it
\* constructs.
Scenarios ==
    {[maps |-> {"plain", "skewed"},          client |-> "combine", limit |-> MaxLocs],
     [maps |-> {"plain", "coarse", "blank"}, client |-> "combine", limit |-> MaxLocs],
     [maps |-> {"near1", "near2"},           client |-> "combine", limit |-> MaxLocs],
     [maps |-> {"near1", "ramp"},            client |-> "combine", limit |-> MaxLocs],
     [maps |-> {"flat", "latmajor"},         client |-> "combine", limit |-> MaxLocs],
     [maps |-> {"plain", "latmajor"},        client |-> "store",   limit |-> MaxLocs - 1]}

EmptyStore == [f \in FileNames |-> None]

\* The store an earlier session left behind when it saved an Observation
\* whose distances lie beyond every cell of the grid.
SavedEarlier ==
    LET m == Map(<<>>, MapFiles["plain"]).val
        o == Observation(<<m>>, 1, 3, 1, <<5, 6, 5, 6, 5, 7>>).val
    IN Call("save", <<m, o>>, EmptyStore, 2, "saved.h5").val

Init ==
    /\ locs = <<>>
    /\ inp \in Scenarios
    /\ files \in IF inp.client = "store" THEN {EmptyStore, SavedEarlier} ELSE {EmptyStore}
    /\ ret = [op |-> NoneVal]

\* What a call leaves for its caller.
Returned(op, args, r) == [op |-> op, args |-> args, exc |-> r.exc, val |-> r.val]

\* A constructor or a method that returns a new object: val is its index.
Constructing(op, args, r) ==
    /\ locs' = IF r.exc = NoneVal THEN Append(r.L, r.val) ELSE r.L
    /\ ret' = [op |-> op, args |-> args, exc |-> r.exc,
               val |-> IF r.exc = NoneVal THEN Len(locs) + 1 ELSE 0]
    /\ UNCHANGED <<files, inp>>

NewMap ==
    /\ Len(locs) < inp.limit
    /\ \E m \in inp.maps : Constructing("Map", <<m>>, Map(locs, MapFiles[m]))

NewObservation ==
    /\ Len(locs) < inp.limit
    /\ \E a \in 1..Len(locs), s \in Sightings :
          Constructing("Observation", <<a, s>>,
                       Observation(locs, a, s[1], s[2], s[3]))

Intersect ==
    /\ inp.client = "combine"
    /\ Len(locs) < inp.limit
    /\ \E a \in 1..Len(locs), b \in 1..Len(locs),
          bounds \in {None} \cup {Some(g) : g \in Regions} :
          /\ Call("intersection", locs, files, a, <<b, bounds>>).exc # "OutOfRange"
          /\ Constructing("intersection", <<a, b, bounds>>,
                          Call("intersection", locs, files, a, <<b, bounds>>))

Within ==
    /\ inp.client = "combine"
    /\ \E a \in 1..Len(locs), bounds \in Regions :
          LET r == Call("compute_probability_matrix_within", locs, files, a, bounds)
          IN /\ locs' = r.L
             /\ ret' = Returned("within", <<a, bounds>>, r)
             /\ UNCHANGED <<files, inp>>

Get ==
    /\ inp.client = "store"
    /\ \E a \in 1..Len(locs), prop \in Properties :
          LET r == Call(prop, locs, files, a, <<>>)
          IN /\ locs' = r.L
             /\ ret' = [op |-> "get", exc |-> r.exc]
             /\ UNCHANGED <<files, inp>>

Save ==
    /\ inp.client = "store"
    /\ \E a \in 1..Len(locs), f \in FileNames :
          LET r == Call("save", locs, files, a, f)
          IN /\ locs' = r.L
             /\ files' = r.val
             /\ ret' = [op |-> "save", args |-> <<a, f>>, exc |-> r.exc, val |-> <<>>]
             /\ UNCHANGED inp

Load ==
    /\ inp.client = "store"
    /\ Len(locs) < inp.limit
    /\ \E f \in FileNames : Constructing("load", <<f>>, load(locs, files, f))

Next == NewMap \/ NewObservation \/ Intersect \/ Within \/ Get \/ Save \/ Load

Spec == Init /\ [][Next]_vars

\* ------------------------------------------------------------------------
\* Properties of the probability matrices
\* ------------------------------------------------------------------------

\* A matrix M with vacuity flag V is a probability mass function: no entry is
\* negative, V says that no entry is positive, and the entries sum to 0 when
\* V and to 1 otherwise.  The entries of a matrix read back from a file are
\* single-precision roundings of entries that summed to 1, so their sum is 1
\* to within one part in 2^MantissaBits.
IsPMF(M, V, single) ==
    /\ \A c \in Cells(M) : M.num[c] >= 0
    /\ M.den > 0
    /\ V <=> (Support(M) = {})
    /\ IF V THEN MSum(M) = 0
       ELSE IF single THEN Abs(MSum(M) - M.den) * Pow2(MantissaBits) <= M.den
       ELSE MSum(M) = M.den

\* C1: every materialised probability matrix (of a Map, of an Observation, of
\* an intersection, of a loaded Location after its lazy load) and every pair
\* compute_probability_matrix_within returns has non-negative entries that sum
\* to 1 when vacuous is false and to 0 when it is true, and vacuous is true
\* exactly when no entry is positive.
C1_ProbabilityNormalised ==
    /\ \A a \in 1..Len(locs) :
          IsSet(locs[a].probability) =>
              /\ IsSet(locs[a].vacuous)
              /\ IsPMF(Val(locs[a].probability), Val(locs[a].vacuous),
                       IsSet(locs[a].loaded_from))
    /\ (ret.op = "within" /\ ret.exc = NoneVal) => IsPMF(ret.val[1], ret.val[2], FALSE)

\* A Location read back from a file has its matrix, which has mass.
C1_Witness ==
    \E a \in 1..Len(locs) :
        /\ IsSet(locs[a].loaded_from)
        /\ IsSet(locs[a].probability)
        /\ Val(locs[a].vacuous) = FALSE

\* The same entries, whatever the storage format.
SameMatrix(M1, M2) ==
    /\ M1.nrow = M2.nrow
    /\ M1.ncol = M2.ncol
    /\ M1.num = M2.num
    /\ M1.den = M2.den

\* The same entries up to the tolerance of np.allclose.
CloseMatrix(M1, M2) ==
    \/ SameMatrix(M1, M2)
    \/ /\ M1.nrow = M2.nrow
       /\ M1.ncol = M2.ncol
       /\ M1.den = M2.den
       /\ \A c \in Cells(M1) :
             Abs(M1.num[c] - M2.num[c]) <= (M2.num[c] + M2.den \div AToLRatio) \div RTolInv

\* The last call was a.intersection(b, bounds) and returned a Location.
Intersected == ret.op = "intersection" /\ ret.exc = NoneVal

\* C2: when a.intersection(b) returns, b.intersection(a) returns the same
\* vacuous flag, the same bounds and, up to floating-point tolerance, the same
\* probability matrix.
C2_IntersectionCommutes ==
    Intersected =>
        LET a == ret.args[1]
            b == ret.args[2]
            r == locs[ret.val]
            q == Call("intersection", locs, files, b, <<a, ret.args[3]>>)
        IN /\ q.exc = NoneVal
           /\ q.val.vacuous = r.vacuous
           /\ q.val.bounds = r.bounds
           /\ CloseMatrix(Val(q.val.probability), Val(r.probability))

\* The element-wise square of M, renormalised.
NormalisedSquare(M) ==
    LET num == [c \in Cells(M) |-> M.num[c] * M.num[c]]
    IN Canon("csr", M.nrow, M.ncol, num, SetSum(num, Cells(M)))

\* The non-zero entries of M are equal up to the tolerance of np.allclose,
\* measured against the first of them in row-major order.
NearlyUniform(M) ==
    \E c0 \in Support(M) :
        /\ \A c \in Support(M) : c0[1] < c[1] \/ (c0[1] = c[1] /\ c0[2] <= c[2])
        /\ \A c \in Support(M) :
              Abs(M.num[c] - M.num[c0]) <= (M.num[c0] + M.den \div AToLRatio) \div RTolInv

\* The last call was a.intersection(a) for a non-vacuous a, within a's own
\* bounds, and returned a Location.
SelfIntersected ==
    /\ Intersected
    /\ ret.args[1] = ret.args[2]
    /\ IsNone(ret.args[3])
    /\ Call("vacuous", locs, files, ret.args[1], <<>>).val = FALSE

\* C3 as stated: a.intersection(a) of a non-vacuous Location returns a's
\* probability matrix.
C3_SelfIntersectionIdempotent ==
    SelfIntersected =>
        CloseMatrix(Val(locs[ret.val].probability),
                    Call("probability", locs, files, ret.args[1], <<>>).val)

\* C3, amended: a.intersection(a) of a non-vacuous Location returns a's
\* probability matrix when a's non-zero entries are nearly equal, and the
\* renormalised element-wise square of it otherwise.
C3_SelfIntersectionSquares ==
    SelfIntersected =>
        LET P == Call("probability", locs, files, ret.args[1], <<>>).val
            R == Val(locs[ret.val].probability)
        IN /\ Val(locs[ret.val].vacuous) = FALSE
           /\ IF NearlyUniform(P) THEN SameMatrix(R, P)
              ELSE SameMatrix(R, NormalisedSquare(P))

\* A Location whose entries differ has been intersected with itself.
C3_Witness ==
    /\ SelfIntersected
    /\ ~NearlyUniform(Call("probability", locs, files, ret.args[1], <<>>).val)

\* Object a is vacuous.
IsVacuous(a) == Call("vacuous", locs, files, a, <<>>).val = TRUE

\* C4: an intersection with a vacuous operand on either side, when it returns
\* a Location, returns a vacuous one whose matrix is all zero; within the
\* operands' own bounds it does return one.
C4_VacuousAbsorbs ==
    (ret.op = "intersection" /\ ret.exc # "ValueError"
        /\ (IsVacuous(ret.args[1]) \/ IsVacuous(ret.args[2]))) =>
        /\ IsNone(ret.args[3]) => ret.exc = NoneVal
        /\ ret.exc = NoneVal =>
              /\ Val(locs[ret.val].vacuous) = TRUE
              /\ Support(Val(locs[ret.val].probability)) = {}

\* A Location with mass has been intersected with a vacuous one.
C4_Witness ==
    /\ Intersected
    /\ IsVacuous(ret.args[2])
    /\ ~IsVacuous(ret.args[1])
    /\ Val(locs[ret.val].vacuous) = TRUE

\* The two objects are on the same grid: the eight scalars and the two
\* vectors.
SameGrid(o1, o2) == GridOf(o1) = GridOf(o2)

\* C5: intersection raises ValueError, and returns no Location, whenever the
\* operands differ in resolution, fuzz, north, south, east, west, lon_spacing,
\* lat_spacing or in their longitude or latitude vectors.
C5_GridIdentityEnforced ==
    (ret.op = "intersection" /\ ~SameGrid(locs[ret.args[1]], locs[ret.args[2]])) =>
        ret.exc = "ValueError"

\* ------------------------------------------------------------------------
\* Properties of save, load and the lazy caches
\* ------------------------------------------------------------------------

\* p2 is p1 rounded to single precision: values n / d as <<n, d>>.
Float32Close(p1, p2) ==
    Abs(p2[1] * p1[2] - p1[1] * p2[2]) * Pow2(MantissaBits) <= p1[1] * p2[2]

\* Object a, saved to f now, loaded back and forced, is a Location with the
\* cells, coordinates and masses of a, and with the centroid and covariance
\* that save stored.
RoundTrips(a, f) ==
    LET s    == Call("save", locs, files, a, f)
        l    == load(s.L, s.val, f)
        n    == Len(locs) + 1
        p    == Call("probability", Append(l.L, l.val), s.val, n, <<>>)
        orig == Call("probability", locs, files, a, <<>>).val
        back == p.val
    IN /\ s.exc = NoneVal
       /\ l.exc = NoneVal
       /\ p.exc = NoneVal
       /\ Support(back) = Support(orig)
       /\ \A c \in Support(orig) :
             /\ c[1] < Len(p.L[n].longitudes)
             /\ c[2] < Len(p.L[n].latitudes)
             /\ p.L[n].longitudes[c[1] + 1] = locs[a].longitudes[c[1] + 1]
             /\ p.L[n].latitudes[c[2] + 1] = locs[a].latitudes[c[2] + 1]
             /\ Float32Close(<<orig.num[c], orig.den>>, <<back.num[c], back.den>>)
       /\ p.L[n].centroid = Val(s.val[f]).centroid
       /\ p.L[n].covariance = Val(s.val[f]).covariance
       /\ p.L[n].centroid = s.L[a].centroid
       /\ p.L[n].covariance = s.L[a].covariance
       /\ p.L[n].runs["centroid"] = 0

\* Object a has a probability matrix with mass.
HasMass(a) ==
    /\ Call("vacuous", locs, files, a, <<>>).exc = NoneVal
    /\ Call("vacuous", locs, files, a, <<>>).val = FALSE

\* The grid vectors of object a run from west to east and from south to
\* north in equal steps.
EquallySpaced(a) ==
    LET o == locs[a]
    IN /\ o.longitudes = linspace(o.west, o.east, Len(o.longitudes))
       /\ o.latitudes = linspace(o.south, o.north, Len(o.latitudes))
       /\ \A k \in 1..(Len(o.longitudes) - 1) :
             o.longitudes[k + 1] - o.longitudes[k] = o.lon_spacing
       /\ \A k \in 1..(Len(o.latitudes) - 1) :
             o.latitudes[k + 1] - o.latitudes[k] = o.lat_spacing

\* C9: for a non-vacuous Location on an equally spaced grid, save, then load,
\* then forcing the lazy matrix gives back the non-zero cells with their grid
\* indices, coordinates and (to single precision) masses, and the stored
\* centroid and covariance, which are not recomputed.
C9_SaveLoadRoundTrip ==
    \A a \in 1..Len(locs), f \in FileNames :
        (HasMass(a) /\ EquallySpaced(a)) => RoundTrips(a, f)

LazyFields == {"probability", "vacuous", "bounds", "centroid", "covariance",
               "area", "rep_pt"}

\* C10: in every step, a lazy field that is set keeps its value, and no
\* computation behind a lazy field has run more than once.
C10_LazyFieldsWriteOnce ==
    [][\A a \in 1..Len(locs) :
          /\ \A field \in LazyFields :
                IsSet(locs[a][field]) => locs'[a][field] = locs[a][field]
          /\ \A c \in Computations : locs'[a].runs[c] <= 1]_vars

\* ------------------------------------------------------------------------
\* mask_ij as a function under test
\* ------------------------------------------------------------------------

\* Largest coordinate of a rectangle handed to mask_ij.
MaxCoord == 5

MaskLongitudes == {<<0, 2, 4>>, <<1, 3>>, <<2, 2, 4>>}

MaskLatitudes == {<<0, 2>>, <<1, 2, 3>>}

MaskCoords == (-1)..MaxCoord

InitMaskIJ ==
    /\ locs = <<>>
    /\ files = <<>>
    /\ ret = [op |-> NoneVal]
    /\ \E w \in MaskCoords, s \in MaskCoords, e \in MaskCoords, n \in MaskCoords,
          lons \in MaskLongitudes, lats \in MaskLatitudes :
          inp = [bounds |-> <<w, s, e, n>>, longitudes |-> lons, latitudes |-> lats]

CallMaskIJ ==
    /\ ret.op = NoneVal
    /\ ret' = [op |-> "mask_ij"] @@ mask_ij(inp.bounds, inp.longitudes, inp.latitudes)
    /\ UNCHANGED <<locs, files, inp>>

SpecMaskIJ == InitMaskIJ /\ [][CallMaskIJ]_vars

\* The grid points inside the rectangle, as the documentation defines them.
InsideRect(b, lons, lats) ==
    {ij \in (0..(Len(lons) - 1)) \X (0..(Len(lats) - 1)) :
        /\ b[1] <= lons[ij[1] + 1] /\ lons[ij[1] + 1] <= b[3]
        /\ b[2] <= lats[ij[2] + 1] /\ lats[ij[2] + 1] <= b[4]}

\* C6: mask_ij returns exactly the index pairs (i, j) whose grid point lies
\* in the closed rectangle, each pair exactly once; for the bounding rectangle
\* of the whole grid that is every grid index exactly once.
C6_MaskIJExact ==
    ret.op = "mask_ij" =>
        /\ ret.exc = NoneVal
        /\ Len(ret.I) = Len(ret.J)
        /\ {<<ret.I[k], ret.J[k]>> : k \in 1..Len(ret.I)}
               = InsideRect(inp.bounds, inp.longitudes, inp.latitudes)
        /\ Len(ret.I) = Cardinality(InsideRect(inp.bounds, inp.longitudes, inp.latitudes))

\* mask_ij has answered for the bounding rectangle of a 3 x 2 grid and
\* returned all six of its indices.
C6_Witness ==
    /\ ret.op = "mask_ij"
    /\ inp.longitudes = <<0, 2, 4>> /\ inp.latitudes = <<0, 2>>
    /\ inp.bounds = <<0, 0, 4, 2>>
    /\ Len(ret.I) = 6

\* ------------------------------------------------------------------------
\* contains_point and distance_to_point as functions under test
\* ------------------------------------------------------------------------

\* Largest number of non-zero cells of a matrix under test.
MaxSupport == 2

\* The matrix with equal mass on the cells of S.
UniformOn(fmt, nrow, ncol, S) ==
    [fmt |-> fmt, nrow |-> nrow, ncol |-> ncol,
     num |-> [c \in CellsOf(nrow, ncol) |-> IF c \in S THEN 1 ELSE 0],
     den |-> Cardinality(S)]

SupportsOf(nrow, ncol) ==
    {S \in SUBSET CellsOf(nrow, ncol) : S # {} /\ Cardinality(S) <= MaxSupport}

TestLongitudes == <<0, 2, 4>>

TestLatitudes3 == <<0, 2, 4>>

TestLatitudes2 == <<0, 2>>

InitContains ==
    /\ locs = <<>>
    /\ files = <<>>
    /\ ret = [op |-> NoneVal]
    /\ \E S \in SupportsOf(3, 3), q \in CellsOf(3, 3) :
          inp = [P |-> UniformOn("csr", 3, 3, S),
                 longitudes |-> TestLongitudes, latitudes |-> TestLatitudes3,
                 cell |-> q,
                 lon |-> PyAt(TestLongitudes, q[1]), lat |-> PyAt(TestLatitudes3, q[2])]

CallContainsPoint ==
    /\ ret.op = NoneVal
    /\ ret' = [op |-> "contains_point"]
              @@ contains_point(inp.P, inp.longitudes, inp.latitudes, inp.lon, inp.lat)
    /\ UNCHANGED <<locs, files, inp>>

SpecContains == InitContains /\ [][CallContainsPoint]_vars

\* Grid cells a and b are the same cell or immediate neighbours.
Adjoins(a, b) == Abs(a[1] - b[1]) <= 1 /\ Abs(a[2] - b[2]) <= 1

\* C7: called with the coordinates of a grid cell, contains_point returns a
\* boolean (it does not fail) and that boolean is True exactly when the cell
\* itself or one of its 8 immediate neighbours has positive probability; mass
\* in a non-adjacent cell never makes it True.
C7_ContainsPointNeighbourhood ==
    ret.op = "contains_point" =>
        /\ ret.exc = NoneVal
        /\ ret.val = (\E c \in Support(inp.P) : Adjoins(c, inp.cell))

\* Largest longitude of a query point of distance_to_point.
MaxQueryLon == 10

QueryLats == {0, 2, 5}

InitDistance ==
    /\ locs = <<>>
    /\ files = <<>>
    /\ ret = [op |-> NoneVal]
    /\ \E S \in SupportsOf(3, 2), lon \in 0..MaxQueryLon, lat \in QueryLats :
          inp = [P |-> UniformOn("csr", 3, 2, S),
                 longitudes |-> TestLongitudes, latitudes |-> TestLatitudes2,
                 resolution |-> 2, lon |-> lon, lat |-> lat]

CallDistanceToPoint ==
    /\ ret.op = NoneVal
    /\ ret' = [op |-> "distance_to_point"]
              @@ distance_to_point(inp.P, inp.longitudes, inp.latitudes,
                                   inp.resolution, inp.lon, inp.lat)
    /\ UNCHANGED <<locs, files, inp>>

SpecDistance == InitDistance /\ [][CallDistanceToPoint]_vars

\* Twice the least distance from the query point to a non-zero cell.
NearestTwice(P, longitudes, latitudes, lon, lat) ==
    SetMin({2 * WGS84dist(lon, lat, PyAt(longitudes, c[1]), PyAt(latitudes, c[2])) :
               c \in Support(P)})

\* C8: distance_to_point returns 0 when some non-zero cell lies within one and
\* a half grid resolutions of the query point (in particular when the point
\* coincides with the cell), and otherwise the least geodesic distance from
\* the point to a non-zero cell.
C8_DistanceToPointIsNearest ==
    ret.op = "distance_to_point" =>
        LET d2 == NearestTwice(inp.P, inp.longitudes, inp.latitudes, inp.lon, inp.lat)
        IN /\ ret.exc = NoneVal
           /\ ret.twice = IF d2 <= 3 * inp.resolution THEN 0 ELSE d2



\* ------------------------------------------------------------------------
\* MinMax as a function under test
\* ------------------------------------------------------------------------

\* The largest distance of the small scale.
MaxBreak == 4

\* What a distance_range call may return for a minimum or a maximum: below
\* zero, on the small scale, and beyond DISTANCE_LIMIT.
RangeValues == ((-1)..MaxBreak) \cup {DISTANCE_LIMIT + 1}

\* (min, max) pairs as distance_range returns them.
RangePairs == {p \in RangeValues \X RangeValues : p[1] <= p[2]}

\* The distances asked about.
QueryDistances == (0..(MaxBreak + 1)) \cup {DISTANCE_LIMIT, DISTANCE_LIMIT + 1}

InitMinMax ==
    /\ locs = <<>>
    /\ files = <<>>
    /\ ret = [op |-> NoneVal]
    /\ \E cal \in RangePairs, emp \in RangePairs, phy \in RangePairs,
          dist \in QueryDistances :
          inp = [ranges |-> <<cal[1], cal[2], emp[1], emp[2], phy[1], phy[2]>>,
                 dist   |-> dist]

CallMinMax ==
    /\ ret.op = NoneVal
    /\ ret' = [op  |-> "unnormalized_pvals",
               val |-> unnormalized_pval(MinMax(inp.ranges), inp.dist),
               distance_bound |-> distance_bound(MinMax(inp.ranges))]
    /\ UNCHANGED <<locs, files, inp>>

SpecMinMax == InitMinMax /\ [][CallMinMax]_vars

\* A distance clipped to [0, DISTANCE_LIMIT].
Clipped(v) == Min2(DISTANCE_LIMIT, Max2(0, v))

\* C11: unnormalized_pvals is exactly 1 for every distance from the clipped
\* calibration minimum to the clipped calibration maximum, and exactly 0 for
\* every distance beyond the physical maximum, whatever the order of the six
\* breakpoints.
C11_MinMaxPlateauAndCutoff ==
    ret.op = "unnormalized_pvals" =>
        /\ (Clipped(inp.ranges[1]) <= inp.dist /\ inp.dist <= Clipped(inp.ranges[2]))
              => (ret.val[1] = ret.val[2])
        /\ inp.dist > Clipped(inp.ranges[6]) => ret.val[1] = 0

\* ------------------------------------------------------------------------
\* _lazy_load_pmatrix on tables of any content
\* ------------------------------------------------------------------------

\* A table under test has at most this many rows.
MaxRows == 2

\* Stored masses: negative, zero, and two positive ones.
StoredMasses == {<<-1, 4>>, <<0, 1>>, <<1, 4>>, <<1, 2>>}

\* The rows a table on the 3 x 2 grid may hold.
StoredRows ==
    {[grid_x |-> c[1], grid_y |-> c[2],
      longitude |-> Grid3x2.longitudes[c[1] + 1],
      latitude |-> Grid3x2.latitudes[c[2] + 1],
      prob_mass |-> m] : c \in CellsOf(3, 2), m \in StoredMasses}

\* The file of a Location on the 3 x 2 grid with the given rows.
StoredFile(rows) ==
    [table |-> TRUE, resolution |-> Grid3x2.resolution, fuzz |-> Grid3x2.fuzz,
     north |-> Grid3x2.north, south |-> Grid3x2.south,
     east |-> Grid3x2.east, west |-> Grid3x2.west,
     lon_spacing |-> Grid3x2.lon_spacing, lat_spacing |-> Grid3x2.lat_spacing,
     lon_count |-> 3, lat_count |-> 2, centroid |-> None, covariance |-> None,
     rows |-> rows]

InitLazyLoad ==
    /\ \E n \in 0..MaxRows : \E rows \in [1..n -> StoredRows] :
          /\ inp = [rows |-> rows]
          /\ files = [f \in FileNames |-> Some(StoredFile(rows))]
    /\ locs = <<load(<<>>, files, "saved.h5").val>>
    /\ ret = [op |-> NoneVal]

CallLazyLoad ==
    /\ ret.op = NoneVal
    /\ locs' = Call("_lazy_load_pmatrix", locs, files, 1, <<>>).L
    /\ ret' = [op  |-> "_lazy_load_pmatrix",
               exc |-> Call("_lazy_load_pmatrix", locs, files, 1, <<>>).exc]
    /\ UNCHANGED <<files, inp>>

SpecLazyLoad == InitLazyLoad /\ [][CallLazyLoad]_vars

\* The cells of the rows with positive mass.
PositiveCells(rows) ==
    {<<rows[k].grid_x, rows[k].grid_y>> : k \in {j \in 1..Len(rows) : rows[j].prob_mass[1] > 0}}

\* C12: the lazy load of a table completes, also when rows have negative
\* mass: probability, vacuous and bounds are set from the rows of positive
\* mass, the zero and the negative rows being skipped.
C12_NegativeRowsSkipped ==
    ret.op = "_lazy_load_pmatrix" =>
        /\ ret.exc = NoneVal
        /\ IsSet(locs[1].probability)
        /\ IsSet(locs[1].vacuous)
        /\ IsSet(locs[1].bounds)
        /\ Support(Val(locs[1].probability)) = PositiveCells(inp.rows)
        /\ Val(locs[1].vacuous) = (PositiveCells(inp.rows) = {})

\* ------------------------------------------------------------------------
\* Properties of the combination step of intersection
\* ------------------------------------------------------------------------

\* The region the last intersection worked in.
CommonRegion == Val(locs[ret.val].bounds)

\* The pair compute_probability_matrix_within gives for the k-th operand of
\* the last intersection in that region.
Restricted(k) ==
    Call("compute_probability_matrix_within", locs, files, ret.args[k], CommonRegion).val

\* C13 as stated: when exactly one restricted matrix is vacuous the result
\* carries the other operand's restricted matrix, and the result is vacuous
\* only when both restricted matrices are.
C13_VacuousYieldsOther ==
    Intersected =>
        /\ (Restricted(1)[2] /\ ~Restricted(2)[2]) =>
              CloseMatrix(Val(locs[ret.val].probability), Restricted(2)[1])
        /\ (~Restricted(1)[2] /\ Restricted(2)[2]) =>
              CloseMatrix(Val(locs[ret.val].probability), Restricted(1)[1])
        /\ Val(locs[ret.val].vacuous) => (Restricted(1)[2] /\ Restricted(2)[2])

\* C13, amended: when a restricted matrix is vacuous the result carries that
\* matrix, the first operand's if both are, and is vacuous.
C13_VacuousYieldsVacuous ==
    Intersected =>
        /\ Restricted(1)[2] =>
              /\ SameMatrix(Val(locs[ret.val].probability), Restricted(1)[1])
              /\ Val(locs[ret.val].vacuous) = TRUE
        /\ (~Restricted(1)[2] /\ Restricted(2)[2]) =>
              /\ SameMatrix(Val(locs[ret.val].probability), Restricted(2)[1])
              /\ Val(locs[ret.val].vacuous) = TRUE

\* Two operands with mass have been intersected in a region where only the
\* first keeps mass.
C13_Witness ==
    /\ Intersected
    /\ ~IsVacuous(ret.args[1]) /\ ~IsVacuous(ret.args[2])
    /\ ~Restricted(1)[2] /\ Restricted(2)[2]

\* The element-wise product of M1 and M2, renormalised to sum 1.
NormalisedProduct(M1, M2) ==
    LET num == [c \in Cells(M1) |-> M1.num[c] * M2.num[c]]
    IN Canon("csr", M1.nrow, M1.ncol, num, SetSum(num, Cells(M1)))

\* The raw product of M1 and M2 sums to 0.
ProductIsZero(M1, M2) == \A c \in Cells(M1) : M1.num[c] * M2.num[c] = 0

\* M1 equals M2 entry by entry up to the tolerance of np.allclose, the
\* denominators being free.
CloseEntries(M1, M2) ==
    IF SameMatrix(M1, M2) THEN TRUE
    ELSE \A c \in Cells(M1) :
            Abs(M1.num[c] * M2.den - M2.num[c] * M1.den) * RTolInv
                <= (M1.den * M2.den) \div AToLRatio + M2.num[c] * M1.den

\* The non-zero entries of M are all the same.
ExactlyUniform(M) == \A c \in Support(M), d \in Support(M) : M.num[c] = M.num[d]

\* The last call was an intersection of two operands that both have mass in
\* the common region, their product being within the range of the model.
BothRestrictedHaveMass ==
    /\ Intersected
    /\ ~Restricted(1)[2]
    /\ ~Restricted(2)[2]
    /\ ProductFits(Restricted(1)[1], Restricted(2)[1])

\* The fast path applies: the same non-zero cells, one operand nearly uniform.
ReusesOperand ==
    /\ Support(Restricted(1)[1]) = Support(Restricted(2)[1])
    /\ (NearlyUniform(Restricted(1)[1]) \/ NearlyUniform(Restricted(2)[1]))

MaxAxis == 3

\* The grid with nlon longitudes and nlat latitudes, two degrees apart.
GridOfSize(nlon, nlat) ==
    [resolution |-> 2, fuzz |-> 0,
     north |-> 2 * (nlat - 1), south |-> 0, east |-> 2 * (nlon - 1), west |-> 0,
     lon_spacing |-> 2, lat_spacing |-> 2,
     longitudes |-> [k \in 1..nlon |-> 2 * (k - 1)],
     latitudes |-> [k \in 1..nlat |-> 2 * (k - 1)]]

\* Stored baselines of shape (r, c): every cell distinct and positive, or
\* mass in the first cell only.
BaselinesOf(r, c) ==
    {[x \in CellsOf(r, c) |-> 1 + x[1] + MaxAxis * x[2]],
     [x \in CellsOf(r, c) |-> IF x = <<0, 0>> THEN 1 ELSE 0]}

InitMap ==
    /\ locs = <<>>
    /\ files = EmptyStore
    /\ ret = [op |-> NoneVal]
    /\ \E r \in 1..MaxAxis, c \in 1..MaxAxis, nlon \in 1..MaxAxis, nlat \in 1..MaxAxis :
          \E b \in BaselinesOf(r, c) :
             inp = [shape |-> <<r, c>>, baseline |-> b, grid |-> GridOfSize(nlon, nlat)]

CallMap ==
    /\ ret.op = NoneVal
    /\ ret' = [op |-> "Map", exc |-> Map(locs, inp).exc, val |-> Map(locs, inp).val]
    /\ UNCHANGED <<locs, files, inp>>

SpecMap == InitMap /\ [][CallMap]_vars

\* The stored shape fits the grid vectors, longitude-major or latitude-major.
ShapeFitsGrid ==
    \/ inp.shape = <<Len(inp.grid.longitudes), Len(inp.grid.latitudes)>>
    \/ inp.shape = <<Len(inp.grid.latitudes), Len(inp.grid.longitudes)>>

\* C15: Map construction ends with a matrix of shape (len(longitudes),
\* len(latitudes)) holding the stored baseline, transposed when it was stored
\* latitude-major, and raises the load error for every stored shape that
\* fits the grid vectors in neither orientation.
C15_MapShapeChecked ==
    ret.op = "Map" =>
        IF ShapeFitsGrid
        THEN /\ ret.exc = NoneVal
             /\ Val(ret.val.probability).nrow = Len(inp.grid.longitudes)
             /\ Val(ret.val.probability).ncol = Len(inp.grid.latitudes)
             /\ \A x \in CellsOf(Len(inp.grid.longitudes), Len(inp.grid.latitudes)) :
                   (Val(ret.val.probability).num[x] = 0)
                       = (IF inp.shape[1] = Len(inp.grid.longitudes)
                          THEN inp.baseline[x] = 0
                          ELSE inp.baseline[<<x[2], x[1]>>] = 0)
        ELSE ret.exc = "RuntimeError"

\* ------------------------------------------------------------------------
\* The bounding region of an Observation, for distance bounds of any size
\* ------------------------------------------------------------------------

\* Distances around the two thresholds are taken this far to each side.
MaxOffset == 1

\* Maximum distances a calibration may report: none, small ones, and those
\* around 19975000 and around DISTANCE_LIMIT.
BoundValues ==
    {0, 1, 4}
        \cup {WholeMapBound + d : d \in (-MaxOffset)..MaxOffset}
        \cup {DISTANCE_LIMIT + d : d \in (-MaxOffset)..MaxOffset}

InitObsBounds ==
    /\ files = EmptyStore
    /\ ret = [op |-> NoneVal]
    /\ \E cal \in BoundValues, emp \in BoundValues, phy \in BoundValues,
          ref \in {<<0, 0>>, <<3, 1>>} :
          /\ inp = [ranges |-> <<0, cal, 0, emp, 0, phy>>, ref |-> ref]
          /\ locs = <<Map(<<>>, MapFiles["plain"]).val,
                      Observation(<<Map(<<>>, MapFiles["plain"]).val>>, 1,
                                  ref[1], ref[2], <<0, cal, 0, emp, 0, phy>>).val>>

CallObsBounds ==
    /\ ret.op = NoneVal
    /\ locs' = Call("bounds", locs, files, 2, <<>>).L
    /\ ret' = [op  |-> "bounds",
               exc |-> Call("bounds", locs, files, 2, <<>>).exc,
               val |-> Call("bounds", locs, files, 2, <<>>).val]
    /\ UNCHANGED <<files, inp>>

SpecObsBounds == InitObsBounds /\ [][CallObsBounds]_vars

\* The whole map rectangle of the Observation.
WholeMap == Box(locs[2].west, locs[2].south, locs[2].east, locs[2].north)

\* The disk of the Observation's distance bound around its reference point.
BoundDisk ==
    Disk(inp.ref[1], inp.ref[2], distance_bound(Val(locs[2].range_fn)))

\* C16 as stated: the bounding region is the whole map exactly when the
\* distance bound is 0 or at least DISTANCE_LIMIT, and the disk around the
\* reference point for every bound in between.
C16_WholeMapAtLimit ==
    ret.op = "bounds" =>
        /\ ret.exc = NoneVal
        /\ IF distance_bound(Val(locs[2].range_fn)) = 0
              \/ distance_bound(Val(locs[2].range_fn)) >= DISTANCE_LIMIT
           THEN ret.val = WholeMap
           ELSE ret.val = BoundDisk /\ ret.val # WholeMap

\* C16, amended: the bounding region is the whole map exactly when the
\* distance bound is 0 or above 19975000, and the disk around the reference
\* point for every bound from 1 to 19975000.
C16_WholeMapAboveThreshold ==
    ret.op = "bounds" =>
        /\ ret.exc = NoneVal
        /\ IF distance_bound(Val(locs[2].range_fn)) = 0
              \/ distance_bound(Val(locs[2].range_fn)) > 19975000
           THEN ret.val = WholeMap
           ELSE ret.val = BoundDisk /\ ret.val # WholeMap

\* The bounds of an Observation whose distance bound lies between 19975000
\* and DISTANCE_LIMIT have been computed, and are the whole map.
C16_Witness ==
    /\ ret.op = "bounds"
    /\ distance_bound(Val(locs[2].range_fn)) > 19975000
    /\ distance_bound(Val(locs[2].range_fn)) < DISTANCE_LIMIT
    /\ ret.val = WholeMap

\* ------------------------------------------------------------------------
\* Observation.compute_probability_matrix_within, for regions anywhere
\* ------------------------------------------------------------------------

\* The largest maximum distance of an Observation under test.
MaxReach == 4

\* The regions asked about: those of the client, and one in the far corner
\* of the grid.
QueryRegions == Regions \cup {Box(4, 2, 5, 3)}

InitObsWithin ==
    /\ files = EmptyStore
    /\ ret = [op |-> NoneVal]
    /\ \E cal \in 0..MaxReach, emp \in 0..MaxReach, phy \in 0..MaxReach,
          ref \in {<<0, 0>>, <<3, 1>>}, region \in QueryRegions :
          /\ inp = [ranges |-> <<0, cal, 0, emp, 0, phy>>, ref |-> ref, region |-> region]
          /\ locs = <<Map(<<>>, MapFiles["plain"]).val,
                      Observation(<<Map(<<>>, MapFiles["plain"]).val>>, 1,
                                  ref[1], ref[2], <<0, cal, 0, emp, 0, phy>>).val>>

CallObsWithin ==
    /\ ret.op = NoneVal
    /\ locs' = Call("compute_probability_matrix_within", locs, files, 2, inp.region).L
    /\ ret' = Returned("within", <<2, inp.region>>,
                       Call("compute_probability_matrix_within", locs, files, 2, inp.region))
    /\ UNCHANGED <<files, inp>>

SpecObsWithin == InitObsWithin /\ [][CallObsWithin]_vars

\* The point (lon, lat) lies in the rectangle g; no point lies in the empty
\* geometry.
InRegion(g, lon, lat) ==
    IF is_empty(g) THEN FALSE
    ELSE g[1] <= lon /\ lon <= g[3] /\ g[2] <= lat /\ lat <= g[4]

\* The grid cells inside the region and inside the Observation's own bounds
\* to which its ranging function gives positive mass.
CellsWithMass ==
    {c \in CellsOf(Len(locs[2].longitudes), Len(locs[2].latitudes)) :
        /\ InRegion(inp.region, locs[2].longitudes[c[1] + 1], locs[2].latitudes[c[2] + 1])
        /\ InRegion(Call("bounds", locs, files, 2, <<>>).val,
                    locs[2].longitudes[c[1] + 1], locs[2].latitudes[c[2] + 1])
        /\ unnormalized_pval(Val(locs[2].range_fn),
                             WGS84dist(inp.ref[1], inp.ref[2],
                                       locs[2].longitudes[c[1] + 1],
                                       locs[2].latitudes[c[2] + 1]))[1] > 0}

\* C17: Observation.compute_probability_matrix_within returns a pair for
\* every region and never raises: a normalised matrix, vacuous False, on the
\* cells of the region and of its own bounds that have mass, and an empty
\* matrix, vacuous True, when there is none, as for an empty region and for
\* a region apart from its bounds.
C17_ObservationWithinTotal ==
    ret.op = "within" =>
        /\ ret.exc = NoneVal
        /\ Support(ret.val[1]) = CellsWithMass
        /\ ret.val[2] = (CellsWithMass = {})
        /\ IsPMF(ret.val[1], ret.val[2], FALSE)

\* ------------------------------------------------------------------------
\* rep_pt on matrices with nearly equal peaks
\* ------------------------------------------------------------------------

\* The small mass of a cell away from the peaks.
LowMass == 1

\* Masses of a cell, as numerators: none, the small one, a peak, and a peak
\* that is higher by less than rep_pt's epsilon once normalised.
CellMasses == {0, LowMass, EpsilonInv \div 2, EpsilonInv \div 2 + 1}

\* The Location on the 3 x 2 grid with the given numerators.
LocationOf(num) ==
    NewLocation("Location", Grid3x2,
                Some(Canon("csr", 3, 2, num, SetSum(num, CellsOf(3, 2)))),
                Some(FALSE), Some(Box(0, 0, 4, 2)), None, None, None, None, None)

InitRepPt ==
    /\ files = EmptyStore
    /\ ret = [op |-> NoneVal]
    /\ \E num \in [CellsOf(3, 2) -> CellMasses] :
          /\ SetSum(num, CellsOf(3, 2)) > 0
          /\ inp = [num |-> num]
          /\ locs = <<LocationOf(num)>>

CallRepPt ==
    /\ ret.op = NoneVal
    /\ locs' = Call("rep_pt", locs, files, 1, <<>>).L
    /\ ret' = [op  |-> "rep_pt",
               exc |-> Call("rep_pt", locs, files, 1, <<>>).exc,
               val |-> Call("rep_pt", locs, files, 1, <<>>).val]
    /\ UNCHANGED <<files, inp>>

SpecRepPt == InitRepPt /\ [][CallRepPt]_vars

\* The cells whose probability is within epsilon of the maximum.
NearMaximal(P) ==
    {c \in Support(P) :
        SetMax({P.num[d] : d \in Support(P)}) - P.num[c] <= (P.den - 1) \div EpsilonInv}

\* The distance of cell c of object 1 from the centroid of object 1.
CentroidDistance(c) ==
    DistFromCentroid(Val(locs[1].centroid),
                     locs[1].longitudes[c[1] + 1], locs[1].latitudes[c[2] + 1])

\* C18: rep_pt is a cell whose probability is within epsilon of the maximum
\* and which is, among all such cells, nearest to the centroid, wherever in
\* the streaming order the cells stand.
C18_RepPtNearestOfMaximal ==
    ret.op = "rep_pt" =>
        /\ ret.exc = NoneVal
        /\ \E c \in NearMaximal(Val(locs[1].probability)) :
              /\ ret.val = <<locs[1].longitudes[c[1] + 1], locs[1].latitudes[c[2] + 1]>>
              /\ \A d \in NearMaximal(Val(locs[1].probability)) :
                    CentroidDistance(c) <= CentroidDistance(d)

\* ------------------------------------------------------------------------
\* ranging.Gaussian (ranging.py 102-155)
\*
\* A number is <<num, den>>.  The calibration is calibration.Spotter as
\* Gaussian uses it: _mu and _sigma are functions of the round-trip time,
\* here straight lines with the given slopes through the origin, and
\* distance_range gives the four distances of a ranges tuple.
\* ------------------------------------------------------------------------

\* np.percentile(a, q) with linear interpolation, q = q_num / q_den percent:
\* the value at position (n - 1) * q / 100 of the sorted samples.
percentile(a, q_num, q_den) ==
    LET sorted == SortAscending(a)
        n      == Len(sorted)
        qd     == 100 * q_den
        k      == ((n - 1) * q_num) \div qd
        r      == ((n - 1) * q_num) % qd
    IN IF r = 0 THEN <<sorted[k + 1] * qd, qd>>
       ELSE <<sorted[k + 1] * qd + (sorted[k + 2] - sorted[k + 1]) * r, qd>>

\* max(v, floor) of two numbers, over the product of the denominators.
FlooredAt(v, floor) ==
    <<Max2(v[1] * floor[2], floor[1] * v[2]), v[2] * floor[2]>>

\* Gaussian.__init__: val is the ranging function, loc and scale being the
\* parameters of its normal distribution.
Gaussian(calibration, rtts, ranges) ==
    IF ~calibration.has_mu \/ ~calibration.has_sigma
    THEN [exc |-> "TypeError", val |-> <<>>]
    ELSE LET med_rtt == percentile(rtts, 1, 4)
             mu      == <<calibration.mu_slope * med_rtt[1], med_rtt[2]>>
             sigma   == <<calibration.sigma_slope * med_rtt[1], med_rtt[2]>>
         IN [exc |-> NoneVal,
             val |-> [distance_bound |->
                          Max2(Max2(ranges[1], ranges[2]), Max2(ranges[5], ranges[6])),
                      loc   |-> FlooredAt(mu, <<1000, 1>>),
                      scale |-> FlooredAt(sigma, <<1000, 3>>)]]

\* An RTT sample set has at most this many samples.
MaxSamples == 3

\* Round-trip times in milliseconds.
RttValues == {1, 20, 40}

\* Calibrations: metres per millisecond of _mu and of _sigma, and whether
\* the calibration has the two functions at all.
Calibrations ==
    [mu_slope : {0, 100}, sigma_slope : {0, 50}, has_mu : BOOLEAN, has_sigma : BOOLEAN]

InitGaussian ==
    /\ locs = <<>>
    /\ files = EmptyStore
    /\ ret = [op |-> NoneVal]
    /\ \E n \in 1..MaxSamples : \E rtts \in [1..n -> RttValues] :
          \E cal \in Calibrations :
             inp = [calibration |-> cal, rtts |-> rtts, ranges |-> <<0, 4, 0, 4, 0, 4>>]

CallGaussian ==
    /\ ret.op = NoneVal
    /\ ret' = [op |-> "Gaussian"] @@ Gaussian(inp.calibration, inp.rtts, inp.ranges)
    /\ UNCHANGED <<locs, files, inp>>

SpecGaussian == InitGaussian /\ [][CallGaussian]_vars

\* Two numbers are equal.
SameNumber(v, w) == v[1] * w[2] = w[1] * v[2]

\* The 25th percentile of the samples: the value below which a quarter of
\* them lie.
Quartile(rtts) == percentile(rtts, 25, 1)

\* C19: Gaussian takes the calibration's _mu and _sigma at the 25th
\* percentile of the RTT samples and floors them at 1000 and at 1000/3.
C19_GaussianAtQuartile ==
    (ret.op = "Gaussian" /\ ret.exc = NoneVal) =>
        /\ SameNumber(ret.val.loc,
                      FlooredAt(<<inp.calibration.mu_slope * Quartile(inp.rtts)[1],
                                  Quartile(inp.rtts)[2]>>, <<1000, 1>>))
        /\ SameNumber(ret.val.scale,
                      FlooredAt(<<inp.calibration.sigma_slope * Quartile(inp.rtts)[1],
                                  Quartile(inp.rtts)[2]>>, <<1000, 3>>))

\* ------------------------------------------------------------------------
\* intersection of a Location that load() returned (ageo.py 386-459, 584-614)
\* ------------------------------------------------------------------------

\* What the earlier session saved: a Map read from one of these files, or an
\* Observation over the plain map.
SavedMaps == {"plain", "skewed", "ramp", "near1"}

SavedKinds == [map : SavedMaps, sighting : {<<>>} \cup Sightings]

\* The store after an earlier session saved an object of the kind.
StoreOf(kind) ==
    LET m == Map(<<>>, MapFiles[kind.map]).val
    IN IF kind.sighting = <<>>
       THEN Call("save", <<m>>, EmptyStore, 1, "saved.h5").val
       ELSE Call("save", <<m, Observation(<<m>>, 1, kind.sighting[1], kind.sighting[2], kind.sighting[3]).val>>, EmptyStore, 2, "saved.h5").val

\* A session that holds the plain map and, second, the Location it loaded.
InitLoaded ==
    /\ \E kind \in SavedKinds, region \in QueryRegions, loaded_first \in BOOLEAN :
          /\ inp = [kind |-> kind, region |-> region, loaded_first |-> loaded_first]
          /\ files = StoreOf(kind)
          /\ locs = <<Map(<<>>, MapFiles["plain"]).val,
                      load(<<>>, StoreOf(kind), "saved.h5").val>>
    /\ ret = [op |-> NoneVal]

\* The session reads one of the lazy properties of the loaded Location.
Touch ==
    /\ ret.op = NoneVal
    /\ \E prop \in {"probability", "vacuous", "bounds"} :
          locs' = Call(prop, locs, files, 2, <<>>).L
    /\ UNCHANGED <<files, ret, inp>>

\* The operands of the session's intersection: self and other.
Operands == IF inp.loaded_first THEN <<2, 1>> ELSE <<1, 2>>

\* The session intersects the loaded Location and the map within the region.
IntersectLoaded ==
    /\ ret.op = NoneVal
    /\ Call("intersection", locs, files, Operands[1], <<Operands[2], Some(inp.region)>>).exc # "OutOfRange"
    /\ Constructing("intersection", <<Operands[1], Operands[2], Some(inp.region)>>,
                    Call("intersection", locs, files, Operands[1], <<Operands[2], Some(inp.region)>>))

NextLoaded == Touch \/ IntersectLoaded

SpecLoaded == InitLoaded /\ [][NextLoaded]_vars

\* The session's two objects with the loaded Location's matrix materialised.
Materialised == Call("probability", SubSeq(locs, 1, 2), files, 2, <<>>).L

\* What the session's intersection returns once the matrix is materialised.
AfterAccess ==
    Call("intersection", Materialised, files, Operands[1], <<Operands[2], Some(inp.region)>>)

\* C20: an intersection within a caller-supplied region that has a loaded
\* Location as an operand completes and returns the same Location whether
\* or not the loaded Location's matrix was materialised beforehand.
C20_IntersectionIgnoresCaches ==
    ret.op = "intersection" =>
        /\ ret.exc = AfterAccess.exc
        /\ ret.exc = NoneVal => locs[ret.val] = AfterAccess.val

============================================================================
